---- MODULE Spec2Model ----
(***************************************************************************)
(* zk-sca: the host-side partial-archive builder, the guest-side Merkle    *)
(* verifier, the allowlist audit and the guest entry point, as state       *)
(* machines.                                                               *)
(*                                                                         *)
(* A string is a sequence of atoms: an atom is a character, or a run of     *)
(* characters the code only ever handles whole ("Cargo.toml", "Cargo.lock",*)
(* a numeral, a token of file text).  "a/Cargo.toml" is                    *)
(* <<"a", "/", "Cargo.toml">>.                                             *)
(* A 512-byte block is a record of the three regions the code reads:       *)
(*   name : bytes 0..100 with trailing NULs trimmed, a string              *)
(*   size : bytes 124..136, a sequence of byte values                      *)
(*   rest : a token for every other byte ("zero" when they are all NUL)    *)
(* SHA-256 is modelled as a collision-free constructor: the hash of a      *)
(* block is the record [t |-> "leaf", b |-> block] and the hash of a pair  *)
(* is [t |-> "node", l |-> left, r |-> right].                             *)
(***************************************************************************)
EXTENDS Integers, Sequences, FiniteSets, TLC

\* ---------------------------------------------------------------- bounds
MaxEntries == 2
MaxTamper == 1

\* ------------------------------------------------------ program constants
BLOCK == 512
NUL == 0
SPACE == 32
ASCII_ZERO == 48
SIZE_FIELD_LEN == 12

\* ------------------------------------------------------------- utilities
Min(a, b) == IF a < b THEN a ELSE b

RemoveAt(s, i) == [k \in 1..(Len(s) - 1) |-> IF k < i THEN s[k] ELSE s[k + 1]]

SwapAt(s, i, j) ==
  [k \in 1..Len(s) |-> IF k = i THEN s[j] ELSE IF k = j THEN s[i] ELSE s[k]]

RECURSIVE Pow2(_)
Pow2(n) == IF n = 0 THEN 1 ELSE 2 * Pow2(n - 1)

\* usize::to_string and str::parse::<usize>, by table: the numerals the model
\* can meet.  "+2" and "02" are non-canonical numerals parse() also accepts.
Numerals == <<"0", "1", "2", "3", "4", "5", "6", "7", "8", "9", "10", "11", "12">>

to_string(n) == Numerals[n + 1]

OtherNumerals == {<<"+2", 2>>, <<"02", 2>>}

BadCount == -1

parse_usize(s) ==
  IF \E n \in 0..(Len(Numerals) - 1) : Numerals[n + 1] = s
  THEN CHOOSE n \in 0..(Len(Numerals) - 1) : Numerals[n + 1] = s
  ELSE IF \E p \in OtherNumerals : p[1] = s
       THEN (CHOOSE p \in OtherNumerals : p[1] = s)[2]
       ELSE BadCount

\* ------------------------------------------------------------ tar blocks
ZeroField == [k \in 1..SIZE_FIELD_LEN |-> NUL]

\* The size field as a tar writer fills it: eleven octal digits and a NUL.
RECURSIVE OctalDigits(_, _)
OctalDigits(n, width) ==
  IF width = 0 THEN <<>>
  ELSE Append(OctalDigits(n \div 8, width - 1), ASCII_ZERO + (n % 8))

OctalField(n) == Append(OctalDigits(n, SIZE_FIELD_LEN - 1), NUL)

\* u8 subtraction `b - b'0'` of a release build (wrapping).
RECURSIVE parse_octal_from(_, _, _)
parse_octal_from(input, k, result) ==
  IF k > Len(input) THEN result
  ELSE IF input[k] = NUL \/ input[k] = SPACE
       THEN parse_octal_from(input, k + 1, result)
       ELSE parse_octal_from(input, k + 1,
                             result * 8 + ((input[k] - ASCII_ZERO) % 256))

parse_octal(input) == parse_octal_from(input, 1, 0)

parse_tar_header(block) == [name |-> block.name, size |-> parse_octal(block.size)]

\* A block count that rounds down: C1 fails for it.
block_count_floor(size) == size \div BLOCK

block_count(size) == (size + 511) \div BLOCK

ZeroBlock == [name |-> <<>>, size |-> ZeroField, rest |-> "zero"]

\* A header block of a USTAR entry; a data block of short text; the count block.
HeaderBlock(name, size) == [name |-> name, size |-> OctalField(size), rest |-> "ustar"]

DataBlock(kind, tok) == [name |-> <<kind, tok>>, size |-> ZeroField, rest |-> "zero"]

CountBlock(n) == [name |-> <<to_string(n)>>, size |-> ZeroField, rest |-> "zero"]

\* ------------------------------------------------- the archives explored
\* An entry is a name, a size and the kind of its content: "digits" is the
\* one-byte file "2", any other kind names a text whose j-th block starts with
\* the kind and the j-th token.
TextTokens == <<"alpha", "beta", "gamma">>

ContentBlock(kind, j) ==
  CASE kind = "digits" -> CountBlock(2)
    [] OTHER -> DataBlock(kind, TextTokens[j])

EntryCatalog ==
  { [name |-> <<"Cargo.toml">>, size |-> 3, kind |-> "text"],
    [name |-> <<"Cargo.lock">>, size |-> 513, kind |-> "text"],
    [name |-> <<"a", "/", "Cargo.toml">>, size |-> 0, kind |-> "text"],
    [name |-> <<"n.txt">>, size |-> 1, kind |-> "digits"] }

Tars == UNION { [1..n -> EntryCatalog] : n \in 0..MaxEntries }

\* entry.read(&mut buf) until it returns 0: 512 bytes at a time, the last
\* block zero-padded.
RECURSIVE ReadBlocks(_, _, _)
ReadBlocks(kind, remaining, j) ==
  IF remaining = 0 THEN <<>>
  ELSE <<ContentBlock(kind, j)>>
         \o ReadBlocks(kind, remaining - Min(remaining, BLOCK), j + 1)

\* The bytes of an entry's file: its blocks and how many bytes are content.
FileBytes(e) == [blocks |-> ReadBlocks(e.kind, e.size, 1), len |-> e.size]

\* -------------------------------------------------------------- hashing
HashLeaf(block) == [t |-> "leaf", b |-> block]

HashNode(left, right) == [t |-> "node", l |-> left, r |-> right]

\* ------------------------------------------- build_merkle_archive (host)
want_dep(name) ==
  \/ name = <<"Cargo.toml">>
  \/ Len(name) >= 2 /\ name[Len(name) - 1] = "/" /\ name[Len(name)] = "Cargo.toml"
  \/ name = <<"Cargo.lock">>
  \/ Len(name) >= 2 /\ name[Len(name) - 1] = "/" /\ name[Len(name)] = "Cargo.lock"

RECURSIVE ScanEntries(_, _, _)
ScanEntries(tar, k, acc) ==
  IF k > Len(tar) THEN acc
  ELSE LET e == tar[k]
           is_dep_hdr == want_dep(e.name)
           hdr_raw_idx == Len(acc.raw_blocks)
           hdr_leaf_pos == Len(acc.header_indices)
           blocks == ReadBlocks(e.kind, e.size, 1)
           data_raw_idx == [j \in 1..Len(blocks) |-> hdr_raw_idx + j]
       IN ScanEntries(tar, k + 1,
            [raw_blocks |-> acc.raw_blocks \o <<HeaderBlock(e.name, e.size)>> \o blocks,
             header_indices |-> Append(acc.header_indices, hdr_raw_idx),
             dep_raw_indices |->
               IF is_dep_hdr THEN acc.dep_raw_indices \o data_raw_idx
               ELSE acc.dep_raw_indices,
             dep_header_indices |->
               IF is_dep_hdr THEN Append(acc.dep_header_indices, hdr_leaf_pos)
               ELSE acc.dep_header_indices])

\* The scan, then the count block written over raw block 0.
Scan(tar) ==
  LET s == ScanEntries(tar, 1,
             [raw_blocks |-> <<ZeroBlock>>, header_indices |-> <<>>,
              dep_raw_indices |-> <<>>, dep_header_indices |-> <<>>])
  IN [s EXCEPT !.raw_blocks[1] = CountBlock(Len(s.header_indices))]

NextLayer(prev) ==
  [i \in 1..((Len(prev) + 1) \div 2) |->
     HashNode(prev[2 * i - 1],
              IF 2 * i <= Len(prev) THEN prev[2 * i] ELSE prev[2 * i - 1])]

RECURSIVE BuildLayers(_)
BuildLayers(level) ==
  IF Len(level) <= 1 THEN <<level>>
  ELSE <<level>> \o BuildLayers(NextLayer(level))

Layers(raw_blocks) == BuildLayers([i \in 1..Len(raw_blocks) |-> HashLeaf(raw_blocks[i])])

\* The authentication path of physical leaf idx (0-based), bottom-up.
RECURSIVE ProofFrom(_, _, _)
ProofFrom(layers, lvl, idx) ==
  IF lvl >= Len(layers) THEN <<>>
  ELSE LET level == layers[lvl]
           is_left == (idx % 2 = 0)
           sibling == IF is_left
                      THEN (IF idx + 2 <= Len(level) THEN level[idx + 2] ELSE level[idx + 1])
                      ELSE level[idx]
       IN <<[sibling_hash |-> sibling, is_left_child |-> is_left]>>
            \o ProofFrom(layers, lvl + 1, idx \div 2)

MerkleLeafAt(raw_blocks, layers, idx) ==
  [data |-> raw_blocks[idx + 1], path |-> ProofFrom(layers, 1, idx)]

build_merkle_archive(tar) ==
  LET s == Scan(tar)
      layers == Layers(s.raw_blocks)
      leaf(i) == MerkleLeafAt(s.raw_blocks, layers, i)
  IN [root_hash |-> layers[Len(layers)][1],
      count_leaf |-> leaf(0),
      header_leaves |-> [k \in 1..Len(s.header_indices) |-> leaf(s.header_indices[k])],
      dependency_file_leaves |->
        [k \in 1..Len(s.dep_raw_indices) |-> leaf(s.dep_raw_indices[k])],
      dependency_file_header_indices |-> s.dep_header_indices]

\* Every leaf of the full tree with its honest path: what a host holding the
\* archive can put in any slot of a partial archive.
TreeLeaves(tar) ==
  LET s == Scan(tar)
      layers == Layers(s.raw_blocks)
  IN [i \in 1..Len(s.raw_blocks) |-> MerkleLeafAt(s.raw_blocks, layers, i - 1)]

\* ------------------------------------- validate_merkle_archive (guest)
RECURSIVE climb(_, _, _)
climb(current_hash, path, k) ==
  IF k > Len(path) THEN current_hash
  ELSE climb(IF path[k].is_left_child
             THEN HashNode(current_hash, path[k].sibling_hash)
             ELSE HashNode(path[k].sibling_hash, current_hash),
             path, k + 1)

verify_merkle_proof(data, path, root_hash) ==
  climb(HashLeaf(data), path, 1) = root_hash

RECURSIVE index_bits(_, _)
index_bits(path, k) ==
  IF k > Len(path) THEN 0
  ELSE (IF path[k].is_left_child THEN 0 ELSE Pow2(k - 1)) + index_bits(path, k + 1)

reconstruct_leaf_index(path) == index_bits(path, 1)

MerkleErr(why) == [ok |-> FALSE, err |-> "InvalidMerkleArchive", why |-> why]

\* A verifier that takes every proof for good: C5 fails for it.
verify_leaf_proof_skipped(archive, leaf) == TRUE

verify_leaf_proof(archive, leaf) ==
  verify_merkle_proof(leaf.data, leaf.path, archive.root_hash)

\* str::from_utf8(&data).trim_end_matches('\0').parse::<usize>(): a number only
\* when everything after the leading numeral is NUL.
parse_count(data) ==
  IF data.rest = "zero" /\ data.size = ZeroField /\ Len(data.name) = 1
  THEN parse_usize(data.name[1])
  ELSE BadCount

ensure_count_leaf_is_authentic_and_return_count(archive) ==
  LET leaf == archive.count_leaf IN
  IF ~verify_leaf_proof(archive, leaf)
  THEN MerkleErr("Merkle proof failed for a leaf block")
  ELSE IF parse_count(leaf.data) = BadCount
       THEN MerkleErr("Bad header count")
       ELSE [ok |-> TRUE, count |-> parse_count(leaf.data)]

ensure_header_leaves_are_authentic_and_parse(archive, expected_count) ==
  LET leaves == archive.header_leaves IN
  IF Len(leaves) # expected_count THEN MerkleErr("Expected header proofs")
  ELSE IF \E k \in 1..Len(leaves) : ~verify_leaf_proof(archive, leaves[k])
       THEN MerkleErr("Merkle proof failed for a leaf block")
       ELSE [ok |-> TRUE,
             headers |-> [k \in 1..Len(leaves) |-> parse_tar_header(leaves[k].data)]]

\* A verifier that never compares names: C7 fails for it.
ensure_header_names_are_unique_skipped(headers) == [ok |-> TRUE]

ensure_header_names_are_unique(headers) ==
  IF \E i, j \in 1..Len(headers) : i < j /\ headers[i].name = headers[j].name
  THEN MerkleErr("Duplicate file name encountered")
  ELSE [ok |-> TRUE]

RECURSIVE sum_blocks(_, _, _)
sum_blocks(headers, dep_indices, k) ==
  IF k > Len(dep_indices) THEN 0
  ELSE block_count(headers[dep_indices[k] + 1].size)
         + sum_blocks(headers, dep_indices, k + 1)

\* The inner loop without the index comparison: C6 fails for it.
data_leaf_check_without_index(archive, header_leaf_index, cursor, offset) ==
  LET leaves == archive.dependency_file_leaves IN
  IF cursor + offset > Len(leaves) THEN "Missing data leaf"
  ELSE IF ~verify_merkle_proof(leaves[cursor + offset].data, leaves[cursor + offset].path,
                               archive.root_hash)
       THEN "Merkle proof failed for a leaf block"
       ELSE "ok"

\* What stops the inner loop `for offset in 1..=needed` at one offset, or "ok".
data_leaf_check(archive, header_leaf_index, cursor, offset) ==
  LET leaves == archive.dependency_file_leaves IN
  IF cursor + offset > Len(leaves) THEN "Missing data leaf"
  ELSE LET leaf == leaves[cursor + offset] IN
       IF ~verify_leaf_proof(archive, leaf) THEN "Merkle proof failed for a leaf block"
       ELSE IF reconstruct_leaf_index(leaf.path) # header_leaf_index + offset
            THEN "Dependency-file indices out of order"
            ELSE "ok"

\* The outer loop `for &hdr_idx in dep_indices`, from position p with `cursor`
\* data leaves consumed and `files` materialized so far.
RECURSIVE materialize_files(_, _, _, _, _)
materialize_files(archive, headers, p, cursor, files) ==
  LET dep_indices == archive.dependency_file_header_indices
      leaves == archive.dependency_file_leaves
  IN
  IF p > Len(dep_indices)
  THEN (IF cursor < Len(leaves) THEN MerkleErr("Extra data leaves")
        ELSE [ok |-> TRUE, files |-> files])
  ELSE LET hdr_idx == dep_indices[p]
           hdr == headers[hdr_idx + 1]
           h_leaf == archive.header_leaves[hdr_idx + 1]
           needed == block_count(hdr.size)
           header_leaf_index == reconstruct_leaf_index(h_leaf.path)
           bad == {o \in 1..needed :
                     data_leaf_check(archive, header_leaf_index, cursor, o) # "ok"}
           first_bad == CHOOSE o \in bad : \A o2 \in bad : o <= o2
       IN IF bad # {}
          THEN MerkleErr(data_leaf_check(archive, header_leaf_index, cursor, first_bad))
          ELSE materialize_files(archive, headers, p + 1, cursor + needed,
                 Append(files,
                   [header |-> hdr,
                    bytes |-> [blocks |-> [o \in 1..needed |-> leaves[cursor + o].data],
                               len |-> Min(needed * BLOCK, hdr.size)]]))

ensure_dependency_blocks_are_authentic(archive, headers) ==
  LET dep_indices == archive.dependency_file_header_indices IN
  IF \E k \in 1..Len(dep_indices) : ~(dep_indices[k] < Len(headers))
  THEN MerkleErr("Bad dependency header index")
  ELSE IF Len(archive.dependency_file_leaves) # sum_blocks(headers, dep_indices, 1)
       THEN MerkleErr("Expected data-block proofs")
       ELSE materialize_files(archive, headers, 1, 0, <<>>)

validate_merkle_archive(archive) ==
  LET c == ensure_count_leaf_is_authentic_and_return_count(archive) IN
  IF ~c.ok THEN c
  ELSE LET h == ensure_header_leaves_are_authentic_and_parse(archive, c.count) IN
       IF ~h.ok THEN h
       ELSE LET u == ensure_header_names_are_unique(h.headers) IN
            IF ~u.ok THEN u
            ELSE LET f == ensure_dependency_blocks_are_authentic(archive, h.headers) IN
                 IF ~f.ok THEN f
                 ELSE [ok |-> TRUE, headers |-> h.headers, files |-> f.files]

\* ======================================================= the state machine
VARIABLES
  phase,      \* where the run is: "start", "host" (the host holds the partial
              \* archive), "validated", "audit", "audited", or a position of
              \* the guest's real_main
  tar,        \* the entries of the source archive
  tree,       \* every leaf of the full Merkle tree, as the host holds it
  archive,    \* the PartialMerkleArchive handed to the guest
  tampering,  \* what the host did to the builder's output, in order
  vpa,        \* the result of validate_merkle_archive
  audit_in,   \* the arguments of audit_dependencies
  audit_out,  \* its result
  guest_in,   \* the GuestInput next to the archive: resolved_with (a field of
              \* the archive no verifier step reads), permitted_deps, license_policy
  resolved_deps, \* `resolved`, the ResolvedDependencies of validate_cargo_archive
  journal,    \* what the guest committed, in order
  guest_err,  \* the error real_main returned, which main turns into a panic
  received,   \* the journal handed to the verifier's decode_journal, as words
  decoded,    \* what decode_journal returned
  env_vars,   \* the process environment: each variable's value
  prover,     \* a call of ProverConfig::prove: its options, position and guards
  prove_lock, \* PROVE_LOCK: the thread that holds it, or 0
  calls,      \* the calls of prove that threads of one process make at once
  loading,    \* an input being read on its own: what is read, from what, the result
  builder     \* a Prover under construction and what its build calls returned

merkle_vars == <<phase, tar, tree, archive, tampering, vpa>>

audit_vars == <<audit_in, audit_out>>

guest_vars == <<guest_in, resolved_deps, journal, guest_err>>

verifier_vars == <<received, decoded>>

prover_vars == <<env_vars, prover, prove_lock, calls>>

types_vars == <<loading, builder>>

host_vars == <<verifier_vars, prover_vars, types_vars>>

vars == <<merkle_vars, audit_vars, guest_vars, host_vars>>

None == [ok |-> FALSE, err |-> "none", why |-> "none"]

NoAudit == [resolved |-> <<>>, allowlist |-> <<>>, license_policy |-> {}, has_policy |-> FALSE]

\* The guest has read no input.
NoGuestInput ==
  [resolved_with |-> [manager |-> "Cargo", version |-> <<0, 0, 0>>],
   permitted_deps |-> [resolvable_with |-> "Cargo", allowlist |-> <<>>],
   has_policy |-> FALSE, license_policy |-> {}]

GuestIdle ==
  /\ guest_in = NoGuestInput
  /\ resolved_deps = <<>>
  /\ journal = <<>>
  /\ guest_err = None

\* No journal was decoded and no proof was asked for.
HostIdle ==
  /\ received = <<>>
  /\ decoded = None
  /\ env_vars = <<>>
  /\ prover = <<>>
  /\ prove_lock = 0
  /\ calls = <<>>
  /\ loading = <<>>
  /\ builder = <<>>

NoArchive ==
  [root_hash |-> HashLeaf(ZeroBlock),
   count_leaf |-> [data |-> ZeroBlock, path |-> <<>>],
   header_leaves |-> <<>>, dependency_file_leaves |-> <<>>,
   dependency_file_header_indices |-> <<>>]

Init ==
  /\ phase = "start"
  /\ tar \in Tars
  /\ tree = <<>>
  /\ archive = NoArchive
  /\ tampering = <<>>
  /\ vpa = None
  /\ audit_in = NoAudit
  /\ audit_out = None
  /\ GuestIdle
  /\ HostIdle

Build ==
  /\ phase = "start"
  /\ archive' = build_merkle_archive(tar)
  /\ tree' = TreeLeaves(tar)
  /\ phase' = "host"
  /\ UNCHANGED <<tar, tampering, vpa, audit_vars, guest_vars>>
  /\ UNCHANGED host_vars

\* ------------------------------------------------ a malicious host's edits
CanTamper == phase = "host" /\ Len(tampering) < MaxTamper

Tampered(op, i, j, new_archive) ==
  /\ archive' = new_archive
  /\ tampering' = Append(tampering, [op |-> op, i |-> i, j |-> j])
  /\ UNCHANGED <<phase, tar, tree, vpa, audit_vars, guest_vars>>

\* The blocks a corrupted leaf may carry instead of its own: fresh ones, and
\* the blocks of the tree's other leaves.
AltBlocks == {DataBlock("text", "omega"), CountBlock(1), CountBlock(2), CountBlock(3)}

AltDataBlocks == {DataBlock("text", "omega")}

TreeBlocks == {tree[p].data : p \in 1..Len(tree)}

RemoveHeaderLeaf ==
  /\ CanTamper
  /\ \E i \in 1..Len(archive.header_leaves) :
       Tampered("remove_header_leaf", i, 0,
         [archive EXCEPT !.header_leaves = RemoveAt(@, i)])
  /\ UNCHANGED host_vars

AppendHeaderLeaf ==
  /\ CanTamper
  /\ \E p \in 1..Len(tree) :
       Tampered("append_header_leaf", p, 0,
         [archive EXCEPT !.header_leaves = Append(@, tree[p])])
  /\ UNCHANGED host_vars

RemoveDependencyLeaf ==
  /\ CanTamper
  /\ \E i \in 1..Len(archive.dependency_file_leaves) :
       Tampered("remove_dependency_leaf", i, 0,
         [archive EXCEPT !.dependency_file_leaves = RemoveAt(@, i)])
  /\ UNCHANGED host_vars

RemoveDependencyIndex ==
  /\ CanTamper
  /\ \E i \in 1..Len(archive.dependency_file_header_indices) :
       Tampered("remove_dependency_index", i, 0,
         [archive EXCEPT !.dependency_file_header_indices = RemoveAt(@, i)])
  /\ UNCHANGED host_vars

\* The blocks the first p-1 listed dependency files own, by the header leaves.
RECURSIVE blocks_before(_, _)
blocks_before(a, p) ==
  IF p <= 1 THEN 0
  ELSE blocks_before(a, p - 1)
       + block_count(parse_tar_header(
           a.header_leaves[a.dependency_file_header_indices[p - 1] + 1].data).size)

\* Drop a dependency file whole: its header index and every data leaf of it.
DropDependencyFile ==
  /\ CanTamper
  /\ \A k \in 1..Len(archive.dependency_file_header_indices) :
       archive.dependency_file_header_indices[k] < Len(archive.header_leaves)
  /\ \E p \in 1..Len(archive.dependency_file_header_indices) :
       LET first == blocks_before(archive, p)
           last == blocks_before(archive, p + 1)
           leaves == archive.dependency_file_leaves
       IN /\ last <= Len(leaves)
          /\ Tampered("drop_dependency_file", p, 0,
               [archive EXCEPT
                  !.dependency_file_header_indices = RemoveAt(@, p),
                  !.dependency_file_leaves =
                     SubSeq(leaves, 1, first) \o SubSeq(leaves, last + 1, Len(leaves))])
  /\ UNCHANGED host_vars

SwapDependencyLeaves ==
  /\ CanTamper
  /\ \E i, j \in 1..Len(archive.dependency_file_leaves) :
       /\ i < j
       /\ Tampered("swap_dependency_leaves", i, j,
            [archive EXCEPT !.dependency_file_leaves = SwapAt(@, i, j)])
  /\ UNCHANGED host_vars

SwapHeaderLeaves ==
  /\ CanTamper
  /\ \E i, j \in 1..Len(archive.header_leaves) :
       /\ i < j
       /\ Tampered("swap_header_leaves", i, j,
            [archive EXCEPT !.header_leaves = SwapAt(@, i, j)])
  /\ UNCHANGED host_vars

\* Put another leaf of the same tree, with its own valid path, in a slot.
ReplaceCountLeaf ==
  /\ CanTamper
  /\ \E p \in 2..Len(tree) :
       Tampered("replace_count_leaf", p, 0,
         [archive EXCEPT !.count_leaf = tree[p]])
  /\ UNCHANGED host_vars

ReplaceHeaderLeaf ==
  /\ CanTamper
  /\ \E i \in 1..Len(archive.header_leaves), p \in 1..Len(tree) :
       /\ tree[p] # archive.header_leaves[i]
       /\ Tampered("replace_header_leaf", i, p,
            [archive EXCEPT !.header_leaves[i] = tree[p]])
  /\ UNCHANGED host_vars

\* Change a leaf's 512 bytes and keep its path.
CorruptCountLeaf ==
  /\ CanTamper
  /\ \E b \in AltBlocks \cup TreeBlocks :
       /\ b # archive.count_leaf.data
       /\ Tampered("corrupt_count_leaf", 0, 0,
            [archive EXCEPT !.count_leaf.data = b])
  /\ UNCHANGED host_vars

CorruptHeaderLeaf ==
  /\ CanTamper
  /\ \E i \in 1..Len(archive.header_leaves), b \in AltDataBlocks \cup TreeBlocks :
       /\ b # archive.header_leaves[i].data
       /\ Tampered("corrupt_header_leaf", i, 0,
            [archive EXCEPT !.header_leaves[i].data = b])
  /\ UNCHANGED host_vars

CorruptDependencyLeaf ==
  /\ CanTamper
  /\ \E i \in 1..Len(archive.dependency_file_leaves), b \in AltDataBlocks \cup TreeBlocks :
       /\ b # archive.dependency_file_leaves[i].data
       /\ Tampered("corrupt_dependency_leaf", i, 0,
            [archive EXCEPT !.dependency_file_leaves[i].data = b])
  /\ UNCHANGED host_vars

Validate ==
  /\ phase = "host"
  /\ vpa' = validate_merkle_archive(archive)
  /\ phase' = "validated"
  /\ UNCHANGED <<tar, tree, archive, tampering, audit_vars, guest_vars>>
  /\ UNCHANGED host_vars

Next ==
  \/ Build
  \/ RemoveHeaderLeaf
  \/ AppendHeaderLeaf
  \/ RemoveDependencyLeaf
  \/ RemoveDependencyIndex
  \/ DropDependencyFile
  \/ SwapDependencyLeaves
  \/ SwapHeaderLeaves
  \/ ReplaceCountLeaf
  \/ ReplaceHeaderLeaf
  \/ CorruptCountLeaf
  \/ CorruptHeaderLeaf
  \/ CorruptDependencyLeaf
  \/ Validate

Spec == Init /\ [][Next]_vars

\* ================================================================ claims
Honest == build_merkle_archive(tar)

Validated == phase = "validated"

Untampered == tampering = <<>>

Accepted == Validated /\ vpa.ok

Rejected == Validated /\ ~vpa.ok /\ vpa.err = "InvalidMerkleArchive"

DistinctNames == \A i, j \in 1..Len(tar) : i # j => tar[i].name # tar[j].name

OnlyEdit(ops) == Len(tampering) = 1 /\ tampering[1].op \in ops

\* The 0-based positions, in entry order, of the entries with dependency names.
DependencyEntries == {k \in 1..Len(tar) : want_dep(tar[k].name)}

\* What the verifier should hand back for the source archive `tar`.
ReturnsTheArchive ==
  /\ vpa.ok
  /\ Len(vpa.headers) = parse_count(archive.count_leaf.data)
  /\ Len(vpa.headers) = Len(tar)
  /\ Len(vpa.files) = Cardinality(DependencyEntries)
  /\ \A k \in DependencyEntries :
       \E f \in 1..Len(vpa.files) :
         /\ vpa.files[f].header.name = tar[k].name
         /\ vpa.files[f].bytes = FileBytes(tar[k])
         /\ vpa.files[f].bytes.len = vpa.files[f].header.size

\* C1, as stated: for every archive the builder produces, validation succeeds,
\* returns as many headers as the count leaf says, and returns every
\* dependency file byte for byte.
C1_EveryHonestArchiveValidates ==
  (Validated /\ Untampered) => ReturnsTheArchive

\* C1, amended: the same for every archive the builder produces from entries
\* with pairwise distinct names.
C1_HonestArchiveWithDistinctNamesValidates ==
  (Validated /\ Untampered /\ DistinctNames) => ReturnsTheArchive

C1_Witness ==
  /\ Validated /\ Untampered /\ DistinctNames /\ vpa.ok
  /\ \E f \in 1..Len(vpa.files) :
       vpa.files[f].bytes.len = 513 /\ Len(vpa.files[f].bytes.blocks) = 2

\* C2: whenever the verifier accepts, every authenticated header with a
\* dependency-file name is listed in dependency_file_header_indices and has its
\* file among the returned files.
C2_AcceptedArchiveHasEveryDependencyFile ==
  Accepted =>
    \A k \in 1..Len(vpa.headers) :
      want_dep(vpa.headers[k].name) =>
        /\ \E p \in 1..Len(archive.dependency_file_header_indices) :
             archive.dependency_file_header_indices[p] = k - 1
        /\ \E f \in 1..Len(vpa.files) : vpa.files[f].header = vpa.headers[k]

\* C3: the verifier accepts only when the count leaf is the leaf at logical
\* index 0 of the tree under root_hash.
C3_CountLeafIsLeafZero ==
  Accepted =>
    /\ reconstruct_leaf_index(archive.count_leaf.path) = 0
    /\ archive.count_leaf = tree[1]

\* C4: an honest archive with any single entry removed from header_leaves,
\* dependency_file_leaves or dependency_file_header_indices is rejected with
\* InvalidMerkleArchive.
C4_SingleOmissionIsRejected ==
  (Validated /\ OnlyEdit({"remove_header_leaf", "remove_dependency_leaf",
                          "remove_dependency_index"}))
    => Rejected

\* C5: an honest archive with the data of one supplied leaf (count, header or
\* dependency data) changed, path and root kept, is rejected; so is a count
\* leaf rewritten to any other count.
C5_ChangedLeafDataIsRejected ==
  (Validated /\ OnlyEdit({"corrupt_count_leaf", "corrupt_header_leaf",
                          "corrupt_dependency_leaf"}))
    => Rejected

C5_Witness ==
  /\ Validated
  /\ OnlyEdit({"corrupt_count_leaf"})
  /\ archive.count_leaf.data = CountBlock(1)
  /\ Len(tar) = 2
  /\ vpa.why = "Merkle proof failed for a leaf block"

\* The index equalities of an accepted archive: the k-th data leaf consumed for
\* the p-th listed header sits k leaves after that header's leaf.
DataLeavesFollowTheirHeader ==
  \A p \in 1..Len(archive.dependency_file_header_indices) :
    LET i == archive.dependency_file_header_indices[p] IN
    \A k \in 1..block_count(vpa.headers[i + 1].size) :
      reconstruct_leaf_index(
          archive.dependency_file_leaves[blocks_before(archive, p) + k].path)
        = reconstruct_leaf_index(archive.header_leaves[i + 1].path) + k

\* C6, as stated: acceptance implies the index equalities, and an honest
\* archive with two dependency leaves swapped is rejected with an index
\* mismatch.
C6_SwapIsRejectedByIndexMismatch ==
  /\ Accepted => DataLeavesFollowTheirHeader
  /\ (Validated /\ OnlyEdit({"swap_dependency_leaves"}))
       => (Rejected /\ vpa.why = "Dependency-file indices out of order")

\* C6, amended: acceptance implies the index equalities; an honest archive
\* with two dependency leaves swapped is rejected, and by the index mismatch
\* when its header names are pairwise distinct.
C6_SwapIsRejected ==
  /\ Accepted => DataLeavesFollowTheirHeader
  /\ (Validated /\ OnlyEdit({"swap_dependency_leaves"}))
       => /\ Rejected
          /\ DistinctNames => vpa.why = "Dependency-file indices out of order"

C6_Witness ==
  /\ Validated
  /\ OnlyEdit({"swap_dependency_leaves"})
  /\ DistinctNames
  /\ vpa.why = "Dependency-file indices out of order"

SuppliedNamesRepeat ==
  \E i, j \in 1..Len(archive.header_leaves) :
    /\ i < j
    /\ parse_tar_header(archive.header_leaves[i].data).name
         = parse_tar_header(archive.header_leaves[j].data).name

\* C7: two header leaves that decode to the same name make validation fail
\* with InvalidMerkleArchive, so the names returned on success are pairwise
\* distinct.
C7_DuplicateNamesAreRejected ==
  /\ (Validated /\ SuppliedNamesRepeat) => Rejected
  /\ Accepted =>
       \A i, j \in 1..Len(vpa.headers) :
         i # j => vpa.headers[i].name # vpa.headers[j].name

C7_Witness ==
  /\ Validated
  /\ SuppliedNamesRepeat
  /\ vpa.why = "Duplicate file name encountered"

\* The logical index of the i-th header of the archive: 1 + the sum over the
\* earlier entries of (1 + block_count(size)).
RECURSIVE header_position(_)
header_position(i) ==
  IF i <= 1 THEN 1
  ELSE header_position(i - 1) + 1 + block_count(tar[i - 1].size)

\* C8: on success the returned headers are all the headers of the archive, in
\* archive order, each leaf a real header block at its own logical index.
C8_HeadersAreCompleteAndInOrder ==
  Accepted =>
    /\ Len(vpa.headers) = Len(tar)
    /\ \A i \in 1..Len(vpa.headers) :
         /\ archive.header_leaves[i].data = HeaderBlock(tar[i].name, tar[i].size)
         /\ reconstruct_leaf_index(archive.header_leaves[i].path) = header_position(i)

\* ============================================== audit_dependencies (guest)
MaxResolved == 2

\* semver::Version without pre-release tags: <<major, minor, patch>>.
version_lt(a, b) ==
  \/ a[1] < b[1]
  \/ a[1] = b[1] /\ a[2] < b[2]
  \/ a[1] = b[1] /\ a[2] = b[2] /\ a[3] < b[3]

\* An SPDX expression: one requirement, or AND / OR of two expressions.
Req(r) == [op |-> "req", r |-> r]

And(a, b) == [op |-> "and", a |-> a, b |-> b]

Or(a, b) == [op |-> "or", a |-> a, b |-> b]

\* spdx::Expression::evaluate with the closure |r| policy.contains(r).
RECURSIVE evaluate(_, _)
evaluate(expr, policy) ==
  CASE expr.op = "req" -> expr.r \in policy
    [] expr.op = "and" -> evaluate(expr.a, policy) /\ evaluate(expr.b, policy)
    [] OTHER -> evaluate(expr.a, policy) \/ evaluate(expr.b, policy)

\* allowlist.iter().map(|d| (d.name(), d)).collect(): the last entry of a name.
allow_by_pkg(allowlist) ==
  [n \in {allowlist[k].name : k \in 1..Len(allowlist)} |->
     allowlist[CHOOSE k \in 1..Len(allowlist) :
                 /\ allowlist[k].name = n
                 /\ \A k2 \in 1..Len(allowlist) : allowlist[k2].name = n => k2 <= k]]

AuditErr(kind, name) == [ok |-> FALSE, err |-> kind, why |-> name]

\* The checks with the version compared before the license: C9 fails for it.
enforce_policies_version_first(dep, allow, has_policy, policy) ==
  IF dep.name \notin DOMAIN allow THEN AuditErr("DisallowedDependency", dep.name)
  ELSE LET safe == allow[dep.name] IN
       IF version_lt(dep.version, safe.min_safe_version)
       THEN AuditErr("DisallowedVersion", dep.name)
       ELSE IF has_policy /\ ~evaluate(safe.license, policy)
            THEN AuditErr("DisallowedLicense", dep.name)
            ELSE [ok |-> TRUE]

enforce_policies(dep, allow, has_policy, policy) ==
  IF dep.name \notin DOMAIN allow THEN AuditErr("DisallowedDependency", dep.name)
  ELSE LET safe == allow[dep.name] IN
       IF has_policy /\ ~evaluate(safe.license, policy)
       THEN AuditErr("DisallowedLicense", dep.name)
       ELSE IF version_lt(dep.version, safe.min_safe_version)
            THEN AuditErr("DisallowedVersion", dep.name)
            ELSE [ok |-> TRUE]

\* An audit that stops after the first dependency of the list: C12 fails for it.
audit_from_first_only(resolved, k, allow, has_policy, policy) ==
  IF k > Len(resolved) THEN [ok |-> TRUE]
  ELSE enforce_policies(resolved[k], allow, has_policy, policy)

RECURSIVE audit_from(_, _, _, _, _)
audit_from(resolved, k, allow, has_policy, policy) ==
  IF k > Len(resolved) THEN [ok |-> TRUE]
  ELSE LET r == enforce_policies(resolved[k], allow, has_policy, policy) IN
       IF ~r.ok THEN r ELSE audit_from(resolved, k + 1, allow, has_policy, policy)

audit_dependencies(resolved, allowlist, has_policy, policy) ==
  audit_from(resolved, 1, allow_by_pkg(allowlist), has_policy, policy)

\* ------------------------------------------------- the inputs explored
AllowCatalog ==
  { [name |-> "regex", license |-> l, min_safe_version |-> <<1, 10, 0>>] :
      l \in {Req("MIT"), Or(Req("MIT"), Req("Apache-2.0")),
             And(Req("MIT"), Req("Apache-2.0"))} }
  \cup { [name |-> "serde", license |-> Req("Apache-2.0"), min_safe_version |-> <<1, 0, 0>>] }

\* PermittedDependencies: non-empty, names pairwise distinct.
Allowlists ==
  { a \in UNION { [1..n -> AllowCatalog] : n \in 1..2 } :
      \A i, j \in 1..Len(a) : i # j => a[i].name # a[j].name }

ResolvedCatalog ==
  { [name |-> n, version |-> v, provenance |-> <<"Cargo.lock">>] :
      n \in {"regex", "serde", "rand"}, v \in {<<1, 9, 0>>, <<1, 10, 0>>, <<2, 0, 0>>} }

ResolvedLists == UNION { [1..n -> ResolvedCatalog] : n \in 0..MaxResolved }

\* Option<LicensePolicy>: None, or a non-empty set of requirements.
Policies ==
  { [has_policy |-> FALSE, license_policy |-> {}] }
  \cup { [has_policy |-> TRUE, license_policy |-> ps] :
           ps \in {{"MIT"}, {"Apache-2.0"}, {"MIT", "Apache-2.0"}} }

InitAudit ==
  /\ phase = "audit"
  /\ tar = <<>>
  /\ tree = <<>>
  /\ archive = NoArchive
  /\ tampering = <<>>
  /\ vpa = None
  /\ \E r \in ResolvedLists, a \in Allowlists, p \in Policies :
       audit_in = [resolved |-> r, allowlist |-> a,
                   license_policy |-> p.license_policy, has_policy |-> p.has_policy]
  /\ audit_out = None
  /\ GuestIdle
  /\ HostIdle

Audit ==
  /\ phase = "audit"
  /\ audit_out' = audit_dependencies(audit_in.resolved, audit_in.allowlist,
                                     audit_in.has_policy, audit_in.license_policy)
  /\ phase' = "audited"
  /\ UNCHANGED <<tar, tree, archive, tampering, vpa, audit_in, guest_vars>>
  /\ UNCHANGED host_vars

NextAudit == Audit

SpecAudit == InitAudit /\ [][NextAudit]_vars

\* ------------------------------------------------------------------ C9
Allowed(dep) == \E k \in 1..Len(audit_in.allowlist) : audit_in.allowlist[k].name = dep.name

AllowEntry(dep) ==
  audit_in.allowlist[CHOOSE k \in 1..Len(audit_in.allowlist) :
                       audit_in.allowlist[k].name = dep.name]

\* An SPDX expression holds when each requirement counts as allowed iff it is in
\* the policy: stated on the set of requirement sets that satisfy it.
RECURSIVE Satisfying(_)
Satisfying(expr) ==
  CASE expr.op = "req" -> {{expr.r}}
    [] expr.op = "and" -> {x \cup y : x \in Satisfying(expr.a), y \in Satisfying(expr.b)}
    [] OTHER -> Satisfying(expr.a) \cup Satisfying(expr.b)

LicenseOk(dep) ==
  audit_in.has_policy =>
    \E need \in Satisfying(AllowEntry(dep).license) : need \subseteq audit_in.license_policy

VersionOk(dep) == ~version_lt(dep.version, AllowEntry(dep).min_safe_version)

Compliant(dep) == Allowed(dep) /\ LicenseOk(dep) /\ VersionOk(dep)

FirstFailing ==
  CHOOSE k \in 1..Len(audit_in.resolved) :
    /\ ~Compliant(audit_in.resolved[k])
    /\ \A k2 \in 1..(k - 1) : Compliant(audit_in.resolved[k2])

ExpectedKind(dep) ==
  IF ~Allowed(dep) THEN "DisallowedDependency"
  ELSE IF ~LicenseOk(dep) THEN "DisallowedLicense"
       ELSE "DisallowedVersion"

\* The same allowlist with every license expression replaced by one fixed one.
WithLicense(allowlist, l) ==
  [k \in 1..Len(allowlist) |-> [allowlist[k] EXCEPT !.license = l]]

\* C9: the audit returns Ok exactly when every resolved dependency is
\* allowlisted, passes the license policy if there is one, and is not older
\* than its minimum safe version; the first failing dependency is reported
\* with the kind DisallowedDependency, else DisallowedLicense, else
\* DisallowedVersion; without a policy the license expressions do not matter.
C9_AuditDecidesCompliance ==
  phase = "audited" =>
    /\ audit_out.ok <=> \A k \in 1..Len(audit_in.resolved) : Compliant(audit_in.resolved[k])
    /\ ~audit_out.ok =>
         /\ audit_out.err = ExpectedKind(audit_in.resolved[FirstFailing])
         /\ audit_out.why = audit_in.resolved[FirstFailing].name
    /\ ~audit_in.has_policy =>
         audit_out = audit_dependencies(audit_in.resolved,
                       WithLicense(audit_in.allowlist, Req("GPL-3.0")), FALSE, {})

C9_Witness ==
  /\ phase = "audited"
  /\ audit_in.has_policy
  /\ Len(audit_in.resolved) = 2
  /\ Compliant(audit_in.resolved[1])
  /\ Allowed(audit_in.resolved[2])
  /\ ~LicenseOk(audit_in.resolved[2])
  /\ ~VersionOk(audit_in.resolved[2])
  /\ audit_out.err = "DisallowedLicense"

\* ========================================== validate_cargo_archive (guest)
MaxGuestEntries == 3

StartsWith(s, prefix) ==
  Len(prefix) <= Len(s) /\ SubSeq(s, 1, Len(prefix)) = prefix

\* str::ends_with for a pattern that is one atom.
EndsWith(s, pat) == Len(s) >= 1 /\ s[Len(s)] = pat

\* str::trim_end_matches for a pattern that is one atom: strips every repeat.
RECURSIVE trim_end_matches(_, _)
trim_end_matches(s, pat) ==
  IF Len(s) >= 1 /\ s[Len(s)] = pat
  THEN trim_end_matches(SubSeq(s, 1, Len(s) - 1), pat)
  ELSE s

to_lock_path(manifest_path) ==
  Append(trim_end_matches(manifest_path, "Cargo.toml"), "Cargo.lock")

\* The element of a one-element set: {f(x) : x \in {e}} computes e once for f.
TheOne(S) == CHOOSE v \in S : TRUE

\* HashMap::insert.
Insert(map, key, value) ==
  [x \in (DOMAIN map) \cup {key} |-> IF x = key THEN value ELSE map[x]]

EmptyMap == [x \in {} |-> 0]

Some(v) == [some |-> TRUE, v |-> v]

Nothing == [some |-> FALSE, v |-> <<>>]

\* A requirement string: one VersionReq::parse accepts, as the half-open range
\* of versions it matches, or one it refuses.
Caret(lo, hi) == [parses |-> TRUE, lo |-> lo, hi |-> hi]

Unparsable == [parses |-> FALSE, lo |-> <<0, 0, 0>>, hi |-> <<0, 0, 0>>]

matches(req, ver) == ~version_lt(ver, req.lo) /\ version_lt(ver, req.hi)

CargoErr(kind, why) == [ok |-> FALSE, err |-> kind, why |-> why]

\* A dependency table entry: the key, the `package` rename ("" when absent)
\* and the requirement.  A table is a BTreeMap: its entries come sorted by key.
Dep(key, package, req) == [key |-> key, package |-> package, req |-> req]

RECURSIVE merge_deps(_, _, _)
merge_deps(target, src, k) ==
  IF k > Len(src) THEN target
  ELSE LET canonical == IF src[k].package = "" THEN src[k].key ELSE src[k].package
       IN merge_deps(IF ~src[k].req.parses THEN target
                     ELSE Insert(target, canonical, src[k].req),
                     src, k + 1)

\* ------------------------------------------------- hash-map iteration
\* Every path a manifest or a lockfile has in the archives explored, and the
\* text format!("{path}") writes for it.
PathList ==
  << <<"Cargo.toml">>, <<"a", "/", "Cargo.toml">>, <<"b", "/", "Cargo.toml">>,
     <<"Cargo.lock">>, <<"a", "/", "Cargo.lock">>, <<"b", "/", "Cargo.lock">> >>

PathText ==
  <<"Cargo.toml", "a/Cargo.toml", "b/Cargo.toml",
    "Cargo.lock", "a/Cargo.lock", "b/Cargo.lock">>

display(path) == PathText[CHOOSE i \in 1..Len(PathList) : PathList[i] = path]

\* Every crate name that is a key of a map.
NameList == <<"app", "evil", "local", "rand", "regex">>

\* The iteration order of a HashMap or HashSet is whatever the hasher and the
\* table make it: two hashers, which list any two keys in opposite orders.
Hashers == {"forward", "backward"}

Reverse(seq) == [i \in 1..Len(seq) |-> seq[Len(seq) + 1 - i]]

\* map.keys() / set.iter(): the keys, in the table's order.
iter(keys, hasher, list) ==
  IF hasher = "forward"
  THEN SelectSeq(list, LAMBDA key : key \in keys)
  ELSE Reverse(SelectSeq(list, LAMBDA key : key \in keys))

\* ---------------------------------------------- the documents explored
\* What cargo_manifest::Manifest::from_slice returns for a text.
ManifestDoc(size, dependencies, build_dependencies, dev_dependencies, workspace) ==
  [size |-> size, utf8 |-> TRUE, form |-> "manifest",
   dependencies |-> dependencies, build_dependencies |-> build_dependencies,
   dev_dependencies |-> dev_dependencies, workspace |-> workspace]

\* [workspace] with its members (empty when the key is absent) and exclude.
Workspace(members, exclude) == Some([members |-> members, exclude |-> exclude])

\* What cargo_lock::Lockfile::from_str returns for a text.
LockDoc(size, version, packages) ==
  [size |-> size, utf8 |-> TRUE, form |-> "lock", version |-> version,
   packages |-> packages]

\* An entry of a package's `dependencies`: cargo_lock::Dependency, the package
\* it names by crate name and version.
DepOn(name, version) == [name |-> name, version |-> version]

Package(name, version, has_source, dependencies) ==
  [name |-> name, version |-> version, has_source |-> has_source,
   dependencies |-> dependencies]

\* Bytes that are no UTF-8 text, and text that is neither document.
OtherDoc(size, utf8) == [size |-> size, utf8 |-> utf8, form |-> "other"]

AppV == <<0, 1, 0>>

Docs ==
  [kind \in {"ws_root", "ws_bare", "ws_empty", "ws_excl", "pkg", "pkg_two",
             "lock_ok", "lock_old", "lock_v2",
             "lock_stray", "lock_two", "lock_cyclic", "lock_nopath",
             "lock_sourceless", "lock_dup", "lock_dup_unused", "binary"} |->
    CASE kind = "ws_root" ->
           ManifestDoc(120, <<Dep("regex", "", Caret(<<1, 0, 0>>, <<2, 0, 0>>))>>,
                       <<>>, <<>>, Workspace(<<<<"a">>>>, Nothing))
      [] kind = "ws_bare" ->
           ManifestDoc(40, <<>>, <<>>, <<>>, Workspace(<<>>, Nothing))
      \* `[workspace]` with `members = []`: the same document as without the key
      [] kind = "ws_empty" ->
           ManifestDoc(55, <<>>, <<>>, <<>>, Workspace(<<>>, Nothing))
      [] kind = "ws_excl" ->
           ManifestDoc(150, <<>>, <<>>, <<>>,
                       Workspace(<< <<"a">>, <<"b">> >>, Some(<< <<"a">> >>)))
      [] kind = "pkg" ->
           ManifestDoc(90, <<Dep("local", "", Unparsable),
                             Dep("re", "regex", Caret(<<1, 10, 0>>, <<2, 0, 0>>))>>,
                       <<>>, <<>>, Nothing)
      [] kind = "pkg_two" ->
           ManifestDoc(95, <<Dep("regex", "", Caret(<<1, 10, 0>>, <<2, 0, 0>>))>>,
                       <<>>,
                       <<Dep("regex", "", Caret(<<1, 0, 0>>, <<2, 0, 0>>))>>,
                       Nothing)
      [] kind = "lock_ok" ->
           LockDoc(513, 3,
             <<Package("app", AppV, FALSE, <<DepOn("regex", <<1, 10, 0>>)>>),
               Package("regex", <<1, 10, 0>>, TRUE, <<>>)>>)
      [] kind = "lock_old" ->
           LockDoc(200, 4,
             <<Package("app", AppV, FALSE, <<DepOn("regex", <<1, 9, 0>>)>>),
               Package("regex", <<1, 9, 0>>, TRUE, <<>>)>>)
      [] kind = "lock_v2" ->
           LockDoc(200, 2, <<Package("app", AppV, FALSE, <<>>)>>)
      [] kind = "lock_stray" ->
           LockDoc(200, 3,
             <<Package("app", AppV, FALSE, <<DepOn("regex", <<1, 10, 0>>)>>),
               Package("regex", <<1, 10, 0>>, TRUE, <<>>),
               Package("rand", <<2, 0, 0>>, TRUE, <<>>)>>)
      [] kind = "lock_two" ->
           LockDoc(210, 3,
             <<Package("app", AppV, FALSE,
                       <<DepOn("regex", <<1, 10, 0>>), DepOn("rand", <<2, 0, 0>>)>>),
               Package("rand", <<2, 0, 0>>, TRUE, <<>>),
               Package("regex", <<1, 10, 0>>, TRUE, <<>>)>>)
      [] kind = "lock_cyclic" ->
           LockDoc(220, 3,
             <<Package("app", AppV, FALSE, <<DepOn("regex", <<1, 10, 0>>)>>),
               Package("rand", <<2, 0, 0>>, TRUE, <<DepOn("regex", <<1, 10, 0>>)>>),
               Package("regex", <<1, 10, 0>>, TRUE, <<DepOn("rand", <<2, 0, 0>>)>>)>>)
      [] kind = "lock_nopath" ->
           LockDoc(100, 3, <<Package("regex", <<1, 10, 0>>, TRUE, <<>>)>>)
      [] kind = "lock_sourceless" ->
           LockDoc(230, 3,
             <<Package("app", AppV, FALSE, <<DepOn("regex", <<1, 10, 0>>)>>),
               Package("evil", <<6, 6, 6>>, FALSE, <<>>),
               Package("regex", <<1, 10, 0>>, TRUE, <<>>)>>)
      [] kind = "lock_dup" ->
           LockDoc(240, 3,
             <<Package("app", AppV, FALSE,
                       <<DepOn("regex", <<1, 9, 0>>), DepOn("regex", <<1, 10, 0>>)>>),
               Package("regex", <<1, 9, 0>>, TRUE, <<>>),
               Package("regex", <<1, 10, 0>>, TRUE, <<>>)>>)
      [] kind = "lock_dup_unused" ->
           LockDoc(250, 3,
             <<Package("app", AppV, FALSE, <<DepOn("regex", <<1, 10, 0>>)>>),
               Package("regex", <<0, 1, 0>>, TRUE, <<>>),
               Package("regex", <<1, 10, 0>>, TRUE, <<>>)>>)
      [] OTHER -> OtherDoc(7, FALSE)]

DocBytes(kind) == [blocks |-> ReadBlocks(kind, Docs[kind].size, 1), len |-> Docs[kind].size]

\* The document a file's bytes are the text of.
DocOf(bytes) ==
  IF \E kind \in DOMAIN Docs : bytes = DocBytes(kind)
  THEN Docs[CHOOSE kind \in DOMAIN Docs : bytes = DocBytes(kind)]
  ELSE OtherDoc(bytes.len, TRUE)

\* ------------------------------------------------------------ parsing
parse_manifest_file(vf) ==
  LET doc == DocOf(vf.bytes) IN
  IF ~doc.utf8 THEN CargoErr("InvalidManifestEncoding", display(vf.header.name))
  ELSE IF doc.form # "manifest" THEN CargoErr("ManifestParseError", display(vf.header.name))
  ELSE LET deps == merge_deps(
                     merge_deps(
                       merge_deps(EmptyMap, doc.dependencies, 1),
                       doc.build_dependencies, 1),
                     doc.dev_dependencies, 1)
           ws == doc.workspace
       IN [ok |-> TRUE,
           info |-> [path |-> vf.header.name,
                     deps |-> deps,
                     has_workspace |-> ws.some,
                     workspace_members |->
                       IF ws.some THEN Some(ws.v.members) ELSE Nothing,
                     workspace_excludes |->
                       IF ws.some /\ ws.v.exclude.some /\ ws.v.exclude.v # <<>>
                       THEN ws.v.exclude ELSE Nothing]]

\* The loop over lockfile.packages: later packages of a name replace earlier.
RECURSIVE lock_maps(_, _, _)
lock_maps(packages, k, acc) ==
  IF k > Len(packages) THEN acc
  ELSE LET pkg == packages[k] IN
       lock_maps(packages, k + 1,
         [pkgs |-> Insert(acc.pkgs, pkg.name, pkg.version),
          deps |-> Insert(acc.deps, pkg.name,
                          [d \in 1..Len(pkg.dependencies) |-> pkg.dependencies[d].name]),
          path_pkgs |-> IF pkg.has_source THEN acc.path_pkgs
                        ELSE acc.path_pkgs \cup {pkg.name}])

parse_lock_file(vf) ==
  LET doc == DocOf(vf.bytes) IN
  IF ~doc.utf8 THEN CargoErr("InvalidLockfileEncoding", display(vf.header.name))
  ELSE IF doc.form # "lock" THEN CargoErr("LockfileParseError", display(vf.header.name))
  ELSE IF doc.version # 3 /\ doc.version # 4
       THEN CargoErr("UnsupportedLockfileVersion", "expected 3 or 4")
  ELSE LET m == lock_maps(doc.packages, 1,
                  [pkgs |-> EmptyMap, deps |-> EmptyMap, path_pkgs |-> {}])
       IN [ok |-> TRUE,
           info |-> [path |-> vf.header.name, pkgs |-> m.pkgs, deps |-> m.deps,
                     path_pkgs |-> m.path_pkgs]]

\* iter().filter(ends_with(pat)).map(parse).collect::<Result<_, _>>(): the
\* parsed files in order, or the first error.
RECURSIVE parse_all(_, _, _, _)
parse_all(files, k, pat, acc) ==
  IF k > Len(files) THEN [ok |-> TRUE, infos |-> acc]
  ELSE IF ~EndsWith(files[k].header.name, pat) THEN parse_all(files, k + 1, pat, acc)
  ELSE LET r == IF pat = "Cargo.toml" THEN parse_manifest_file(files[k])
                ELSE parse_lock_file(files[k])
       IN IF ~r.ok THEN r ELSE parse_all(files, k + 1, pat, Append(acc, r.info))

\* ---------------------------------------------------------- workspaces
workspace_owns_manifest(root, manifest) ==
  LET root_dir == trim_end_matches(root.path, "Cargo.toml")
      under(list) ==
        \E k \in 1..Len(list) :
          StartsWith(manifest.path, root_dir \o trim_end_matches(list[k], "/"))
  IN IF ~StartsWith(manifest.path, root_dir) THEN FALSE
     ELSE IF root.workspace_excludes.some /\ under(root.workspace_excludes.v) THEN FALSE
     ELSE IF root.workspace_members.some
          THEN root.workspace_members.v # <<>> /\ under(root.workspace_members.v)
          ELSE TRUE

\* A count of the manifests that declare [workspace] only: C14 fails for it.
ensure_single_workspace_explicit_only(manifests) ==
  LET root_paths == {manifests[k].path : k \in {k \in 1..Len(manifests) :
                                                  manifests[k].has_workspace}}
  IN IF Cardinality(root_paths) # 1
     THEN CargoErr("InvalidWorkspaceCount", to_string(Cardinality(root_paths)))
     ELSE [ok |-> TRUE, root |-> CHOOSE path \in root_paths : TRUE]

ensure_single_workspace(manifests) ==
  LET explicit_roots == SelectSeq(manifests, LAMBDA m : m.has_workspace)
      owners(m) == {k \in 1..Len(explicit_roots) :
                      workspace_owns_manifest(explicit_roots[k], m)}
      root_of(m) ==
        IF m.has_workspace THEN m.path
        ELSE IF owners(m) # {}
             THEN explicit_roots[CHOOSE k \in owners(m) :
                                   \A k2 \in owners(m) : k <= k2].path
             ELSE m.path
      root_paths == {root_of(manifests[k]) : k \in 1..Len(manifests)}
  IN IF Cardinality(root_paths) # 1
     THEN CargoErr("InvalidWorkspaceCount", to_string(Cardinality(root_paths)))
     ELSE [ok |-> TRUE, root |-> CHOOSE path \in root_paths : TRUE]

\* ----------------------------------------------------- the lock graph
\* The first requirement of the iteration that the lock does not satisfy.
ensure_declared_reqs_are_satisfied(manifest, lock, hasher) ==
  LET unmet == SelectSeq(iter(DOMAIN manifest.deps, hasher, NameList),
                 LAMBDA pkg : ~(/\ pkg \in DOMAIN lock.pkgs
                                /\ matches(manifest.deps[pkg], lock.pkgs[pkg])))
  IN IF unmet = <<>> THEN [ok |-> TRUE]
     ELSE CargoErr("ManifestLockMismatch", unmet[1])

\* while let Some(pkg) = stack.pop(): the packages the walk has seen when the
\* stack is empty.
RECURSIVE walk(_, _, _)
walk(lock, stack, seen) ==
  IF stack = <<>> THEN seen
  ELSE LET pkg == stack[Len(stack)]
           rest == SubSeq(stack, 1, Len(stack) - 1)
       IN IF pkg \in seen THEN walk(lock, rest, seen)
          ELSE walk(lock,
                    IF pkg \in DOMAIN lock.deps THEN rest \o lock.deps[pkg] ELSE rest,
                    seen \cup {pkg})

ensure_lock_graph_is_reachable(lock, hasher) ==
  LET unseen == TheOne({ SelectSeq(iter(DOMAIN lock.pkgs, hasher, NameList),
                                   LAMBDA pkg : pkg \notin seen) :
                         seen \in {walk(lock, iter(lock.path_pkgs, hasher, NameList), {})} })
  IN IF unseen = <<>> THEN [ok |-> TRUE]
     ELSE CargoErr("UndeclaredLockfileDependency", unseen[1])

\* map_by: the last item of each key.
map_by(items) ==
  [key \in {items[k].path : k \in 1..Len(items)} |->
     items[CHOOSE k \in 1..Len(items) :
             /\ items[k].path = key
             /\ \A k2 \in 1..Len(items) : items[k2].path = key => k2 <= k]]

\* The loop that flattens the lockfiles, as the set of what it pushes; the
\* Vec lists them in the iteration order of the two hash maps.
flatten(lock_by_path) ==
  UNION { { [name |-> pkg, version |-> lock_by_path[path].pkgs[pkg],
             provenance |-> path] :
              pkg \in (DOMAIN lock_by_path[path].pkgs) \ lock_by_path[path].path_pkgs } :
          path \in DOMAIN lock_by_path }

\* The checks on the parsed files, each loop returning at the first item of
\* its iteration that fails, and the flattened list.
check_lock_graph(manifest_by_path, lock_by_path, workspace_lock_path, hasher) ==
  LET redundant ==
        SelectSeq(iter(DOMAIN manifest_by_path, hasher, PathList),
          LAMBDA path : /\ ~manifest_by_path[path].has_workspace
                        /\ to_lock_path(path) \in DOMAIN lock_by_path)
      unmet ==
        SelectSeq(iter(DOMAIN manifest_by_path, hasher, PathList),
          LAMBDA path : ~ensure_declared_reqs_are_satisfied(
                            manifest_by_path[path], lock_by_path[workspace_lock_path],
                            hasher).ok)
      unreachable ==
        SelectSeq(iter(DOMAIN lock_by_path, hasher, PathList),
          LAMBDA path : ~ensure_lock_graph_is_reachable(lock_by_path[path], hasher).ok)
  IN IF redundant # <<>>
     THEN CargoErr("RedundantLockfile", display(redundant[1]))
     ELSE IF workspace_lock_path \notin DOMAIN lock_by_path
     THEN CargoErr("MissingLockfile", display(workspace_lock_path))
     ELSE IF unmet # <<>>
     THEN ensure_declared_reqs_are_satisfied(manifest_by_path[unmet[1]],
                                             lock_by_path[workspace_lock_path], hasher)
     ELSE IF unreachable # <<>>
     THEN ensure_lock_graph_is_reachable(lock_by_path[unreachable[1]], hasher)
     ELSE [ok |-> TRUE, resolved |-> flatten(lock_by_path)]

validate_cargo_archive(files, hasher) ==
  TheOne({
    IF ~manifests.ok THEN manifests
    ELSE TheOne({
      IF ~ws.ok THEN ws
      ELSE TheOne({
        IF ~locks.ok THEN locks
        ELSE TheOne({ check_lock_graph(manifest_by_path, lock_by_path,
                                       to_lock_path(ws.root), hasher) :
                        manifest_by_path \in {map_by(manifests.infos)},
                        lock_by_path \in {map_by(locks.infos)} })
        : locks \in {parse_all(files, 1, "Cargo.lock", <<>>)} })
      : ws \in {ensure_single_workspace(manifests.infos)} })
    : manifests \in {parse_all(files, 1, "Cargo.toml", <<>>)} })

\* ================================================== real_main (guest)
\* Cargo 1.51 is the first stable version that can produce V3 lockfiles.
MinCargo == <<1, 51, 0>>

\* The only PackageManager there is.
Managers == {"Cargo"}

GuestCatalog ==
  { [name |-> <<"Cargo.toml">>, size |-> Docs["ws_root"].size, kind |-> "ws_root"],
    [name |-> <<"a", "/", "Cargo.toml">>, size |-> Docs["pkg"].size, kind |-> "pkg"],
    [name |-> <<"Cargo.lock">>, size |-> Docs["lock_ok"].size, kind |-> "lock_ok"],
    [name |-> <<"Cargo.lock">>, size |-> Docs["lock_old"].size, kind |-> "lock_old"],
    [name |-> <<"Cargo.lock">>, size |-> Docs["lock_stray"].size, kind |-> "lock_stray"],
    [name |-> <<"Cargo.lock">>, size |-> Docs["lock_two"].size, kind |-> "lock_two"],
    [name |-> <<"a", "/", "Cargo.lock">>, size |-> Docs["lock_ok"].size, kind |-> "lock_ok"] }

GuestTars == UNION { [1..n -> GuestCatalog] : n \in 1..MaxGuestEntries }

GuestInputs ==
  { [resolved_with |-> [manager |-> m, version |-> v],
     permitted_deps |-> [resolvable_with |-> r, allowlist |-> a],
     has_policy |-> p.has_policy, license_policy |-> p.license_policy] :
      m \in Managers, r \in Managers,
      v \in {<<1, 50, 9>>, MinCargo, <<2, 0, 0>>},
      a \in { <<[name |-> "regex", license |-> Req("MIT"),
                 min_safe_version |-> <<1, 10, 0>>]>>,
              <<[name |-> "regex", license |-> Req("Apache-2.0"),
                 min_safe_version |-> <<1, 10, 0>>]>>,
              <<[name |-> "rand", license |-> Req("MIT"),
                 min_safe_version |-> <<1, 0, 0>>],
                [name |-> "regex", license |-> Req("MIT"),
                 min_safe_version |-> <<1, 10, 0>>]>> },
      p \in { [has_policy |-> FALSE, license_policy |-> {}],
              [has_policy |-> TRUE, license_policy |-> {"MIT"}] } }

\* Every enumeration of a finite set.
Orderings(S) ==
  { order \in [1..Cardinality(S) -> S] :
      \A i, j \in 1..Cardinality(S) : i # j => order[i] # order[j] }

\* The guest starts on the archive the builder made of some source archive.
InitGuest ==
  /\ phase = "host"
  /\ tar \in GuestTars
  /\ tree = <<>>
  /\ archive = build_merkle_archive(tar)
  /\ tampering = <<>>
  /\ vpa = None
  /\ audit_in = NoAudit
  /\ audit_out = None
  /\ guest_in \in GuestInputs
  /\ resolved_deps = <<>>
  /\ journal = <<>>
  /\ guest_err = None
  /\ HostIdle

\* return Err(..) from real_main: main panics and nothing more runs.
Fail(error) ==
  /\ guest_err' = error
  /\ phase' = "panicked"

CheckManager ==
  /\ phase = "host"
  /\ IF guest_in.resolved_with.manager = guest_in.permitted_deps.resolvable_with
     THEN phase' = "manager_ok" /\ UNCHANGED guest_err
     ELSE Fail(CargoErr("InconsistentPackageManager", guest_in.resolved_with.manager))
  /\ UNCHANGED <<tar, tree, archive, tampering, vpa, audit_vars,
                 guest_in, resolved_deps, journal>>
  /\ UNCHANGED host_vars

\* A guest that looks at the claimed version before it validates the archive.
ValidateMerkleAfterGate ==
  /\ phase = "manager_ok"
  /\ IF version_lt(guest_in.resolved_with.version, MinCargo)
     THEN /\ Fail(CargoErr("UnsupportedPackageManager", guest_in.resolved_with.manager))
          /\ UNCHANGED vpa
     ELSE /\ vpa' = validate_merkle_archive(archive)
          /\ IF vpa'.ok
             THEN phase' = "merkle_ok" /\ UNCHANGED guest_err
             ELSE Fail(vpa')
  /\ UNCHANGED <<tar, tree, archive, tampering, audit_vars,
                 guest_in, resolved_deps, journal>>
  /\ UNCHANGED host_vars

ValidateMerkle ==
  /\ phase = "manager_ok"
  /\ vpa' = validate_merkle_archive(archive)
  /\ IF vpa'.ok
     THEN phase' = "merkle_ok" /\ UNCHANGED guest_err
     ELSE Fail(vpa')
  /\ UNCHANGED <<tar, tree, archive, tampering, audit_vars,
                 guest_in, resolved_deps, journal>>
  /\ UNCHANGED host_vars

\* A gate that looks at the minor version alone: C13 fails for it.
VersionGateMinorOnly ==
  /\ phase = "merkle_ok"
  /\ IF /\ guest_in.resolved_with.manager = "Cargo"
        /\ guest_in.resolved_with.version[2] >= MinCargo[2]
     THEN phase' = "gate_ok" /\ UNCHANGED guest_err
     ELSE Fail(CargoErr("UnsupportedPackageManager", guest_in.resolved_with.manager))
  /\ UNCHANGED <<tar, tree, archive, tampering, vpa, audit_vars,
                 guest_in, resolved_deps, journal>>
  /\ UNCHANGED host_vars

VersionGate ==
  /\ phase = "merkle_ok"
  /\ IF /\ guest_in.resolved_with.manager = "Cargo"
        /\ ~version_lt(guest_in.resolved_with.version, MinCargo)
     THEN phase' = "gate_ok" /\ UNCHANGED guest_err
     ELSE Fail(CargoErr("UnsupportedPackageManager", guest_in.resolved_with.manager))
  /\ UNCHANGED <<tar, tree, archive, tampering, vpa, audit_vars,
                 guest_in, resolved_deps, journal>>
  /\ UNCHANGED host_vars

CargoAnalysis ==
  /\ phase = "gate_ok"
  /\ \E hasher \in Hashers :
       \E r \in {validate_cargo_archive(vpa.files, hasher)} :
         IF r.ok
         THEN /\ resolved_deps' \in Orderings(r.resolved)
              /\ phase' = "resolved"
              /\ UNCHANGED guest_err
         ELSE Fail(r) /\ UNCHANGED resolved_deps
  /\ UNCHANGED <<tar, tree, archive, tampering, vpa, audit_vars, guest_in, journal>>
  /\ UNCHANGED host_vars

\* A guest that runs the audit and goes on whatever it returns: C10 fails for it.
AllowlistAuditIgnored ==
  /\ phase = "resolved"
  /\ audit_in' = [resolved |-> resolved_deps,
                  allowlist |-> guest_in.permitted_deps.allowlist,
                  license_policy |-> guest_in.license_policy,
                  has_policy |-> guest_in.has_policy]
  /\ audit_out' = audit_dependencies(resolved_deps, guest_in.permitted_deps.allowlist,
                                     guest_in.has_policy, guest_in.license_policy)
  /\ phase' = "audit_ok"
  /\ UNCHANGED <<tar, tree, archive, tampering, vpa, guest_in, resolved_deps, journal,
                 guest_err>>
  /\ UNCHANGED host_vars

AllowlistAudit ==
  /\ phase = "resolved"
  /\ audit_in' = [resolved |-> resolved_deps,
                  allowlist |-> guest_in.permitted_deps.allowlist,
                  license_policy |-> guest_in.license_policy,
                  has_policy |-> guest_in.has_policy]
  /\ audit_out' = audit_dependencies(resolved_deps, guest_in.permitted_deps.allowlist,
                                     guest_in.has_policy, guest_in.license_policy)
  /\ IF audit_out'.ok
     THEN phase' = "audit_ok" /\ UNCHANGED guest_err
     ELSE Fail(audit_out')
  /\ UNCHANGED <<tar, tree, archive, tampering, vpa, guest_in, resolved_deps, journal>>
  /\ UNCHANGED host_vars

\* GuestOutputV0, as GuestOutput::V0.
GuestOutput ==
  [root_hash |-> archive.root_hash,
   permitted_deps |-> guest_in.permitted_deps,
   has_policy |-> guest_in.has_policy,
   license_policy |-> guest_in.license_policy]

Commit ==
  /\ phase = "audit_ok"
  /\ journal' = Append(journal, GuestOutput)
  /\ phase' = "done"
  /\ UNCHANGED <<tar, tree, archive, tampering, vpa, audit_vars,
                 guest_in, resolved_deps, guest_err>>
  /\ UNCHANGED host_vars

\* ============================================== decode_journal (verifier)
GUEST_OUTPUT_V0 == 0

\* The variants of GuestOutput and the index serde writes for each.
VariantIndex == [variant \in {"V0"} |-> 0]

\* GuestOutput::version.
version(guest_out) == IF guest_out.variant = "V0" THEN GUEST_OUTPUT_V0 ELSE BadCount

\* env::commit(&out) for out = GuestOutput::V0(out_v0): the words of the
\* journal.  An enum is its variant index and then the variant's fields; an
\* Option is 0, or 1 and then its value.
to_vec(out_v0) ==
  <<VariantIndex["V0"], out_v0.root_hash, out_v0.permitted_deps>>
    \o (IF out_v0.has_policy THEN <<1, out_v0.license_policy>> ELSE <<0>>)

VerifierErr(kind, why) == [ok |-> FALSE, err |-> kind, why |-> why]

\* A deserializer that reads the fields of V0 whatever the variant index is:
\* C11 fails for it.
journal_decode_any_variant(words) ==
  IF Len(words) < 4 THEN VerifierErr("JournalDecodeError", "unexpected end of input")
  ELSE IF words[4] = 0 /\ Len(words) = 4
  THEN [ok |-> TRUE,
        v |-> [variant |-> "V0", root_hash |-> words[2], permitted_deps |-> words[3],
               has_policy |-> FALSE, license_policy |-> {}]]
  ELSE IF words[4] = 1 /\ Len(words) = 5
  THEN [ok |-> TRUE,
        v |-> [variant |-> "V0", root_hash |-> words[2], permitted_deps |-> words[3],
               has_policy |-> TRUE, license_policy |-> words[5]]]
  ELSE VerifierErr("JournalDecodeError", "invalid option or trailing words")

\* Journal::decode::<GuestOutput>.
journal_decode(words) ==
  IF Len(words) < 1 THEN VerifierErr("JournalDecodeError", "unexpected end of input")
  ELSE IF \A variant \in DOMAIN VariantIndex : VariantIndex[variant] # words[1]
  THEN VerifierErr("JournalDecodeError", "unknown variant index")
  ELSE IF Len(words) < 4 THEN VerifierErr("JournalDecodeError", "unexpected end of input")
  ELSE IF words[4] = 0 /\ Len(words) = 4
  THEN [ok |-> TRUE,
        v |-> [variant |-> "V0", root_hash |-> words[2], permitted_deps |-> words[3],
               has_policy |-> FALSE, license_policy |-> {}]]
  ELSE IF words[4] = 1 /\ Len(words) = 5
  THEN [ok |-> TRUE,
        v |-> [variant |-> "V0", root_hash |-> words[2], permitted_deps |-> words[3],
               has_policy |-> TRUE, license_policy |-> words[5]]]
  ELSE VerifierErr("JournalDecodeError", "invalid option or trailing words")

decode_journal(words) ==
  TheOne({ IF ~guest_out.ok THEN guest_out
           ELSE IF guest_out.v.variant = "V0"
           THEN [ok |-> TRUE, root_hash |-> guest_out.v.root_hash,
                 permitted_deps |-> guest_out.v.permitted_deps,
                 has_policy |-> guest_out.v.has_policy,
                 license_policy |-> guest_out.v.license_policy]
           ELSE VerifierErr("UnsupportedJournalVersion", to_string(version(guest_out.v)))
           : guest_out \in {journal_decode(words)} })

\* The version tags no GuestOutput variant has.
OtherTags == {1, 2}

\* What a verifier may be handed for a committed output: its journal, the
\* same words under another version tag, or the journal cut short.
JournalsFor(out_v0) ==
  {to_vec(out_v0)}
    \cup {[to_vec(out_v0) EXCEPT ![1] = tag] : tag \in OtherTags}
    \cup {SubSeq(to_vec(out_v0), 1, 2)}

DecodeJournal ==
  /\ phase = "done"
  /\ decoded = None
  /\ \E words \in JournalsFor(journal[1]) :
       /\ received' = words
       /\ decoded' = decode_journal(words)
  /\ UNCHANGED <<merkle_vars, audit_vars, guest_vars, prover_vars, types_vars>>

NextGuest ==
  \/ CheckManager
  \/ ValidateMerkle
  \/ VersionGate
  \/ CargoAnalysis
  \/ AllowlistAudit
  \/ Commit
  \/ DecodeJournal

SpecGuest == InitGuest /\ [][NextGuest]_vars

\* ----------------------------------------------------------------- C10
\* Every check of the pipeline, recomputed from the guest's input.
PassedEveryCheck ==
  LET merkle == validate_merkle_archive(archive) IN
  /\ guest_in.resolved_with.manager = guest_in.permitted_deps.resolvable_with
  /\ merkle.ok
  /\ guest_in.resolved_with.manager = "Cargo"
  /\ ~version_lt(guest_in.resolved_with.version, MinCargo)
  /\ \E hasher \in Hashers :
       /\ validate_cargo_archive(merkle.files, hasher).ok
       /\ resolved_deps \in Orderings(validate_cargo_archive(merkle.files, hasher).resolved)
  /\ audit_dependencies(resolved_deps, guest_in.permitted_deps.allowlist,
                        guest_in.has_policy, guest_in.license_policy).ok

\* C10: the guest commits a journal only after the manager check, the Merkle
\* validation, the version gate, the Cargo analysis and the audit have all
\* succeeded; a run that ends in an error has committed nothing; no run
\* commits more than one journal.
C10_JournalOnlyAfterEveryCheck ==
  /\ Len(journal) <= 1
  /\ journal # <<>> =>
       /\ phase = "done"
       /\ guest_err = None
       /\ PassedEveryCheck
       /\ journal[1].root_hash = archive.root_hash
       /\ journal[1].permitted_deps = guest_in.permitted_deps
  /\ (phase = "panicked" \/ guest_err # None) => journal = <<>>
  /\ phase = "done" => Len(journal) = 1

C10_Witness ==
  /\ phase = "done"
  /\ Len(journal) = 1
  /\ Len(tar) = 3
  /\ Len(vpa.files) = 3
  /\ Len(resolved_deps) >= 1
  /\ guest_in.has_policy
PassesGates ==
  /\ guest_in.resolved_with.manager = guest_in.permitted_deps.resolvable_with
  /\ vpa.ok
  /\ vpa = validate_merkle_archive(archive)
  /\ guest_in.resolved_with.manager = "Cargo"
  /\ ~version_lt(guest_in.resolved_with.version, MinCargo)

AuditAccepts(order) ==
  audit_dependencies(order, guest_in.permitted_deps.allowlist,
                     guest_in.has_policy, guest_in.license_policy).ok

\* C12: for a fixed guest input the verdict does not depend on the iteration
\* order of the hash maps: a run that commits passes the Cargo analysis under
\* every hasher and the audit under every order of the resolved list, and
\* commits the output made of the input alone; a run that fails passes under no
\* hasher and no order.
C12_VerdictIsOrderIndependent ==
  /\ phase = "done" =>
       /\ PassesGates
       /\ \A hasher \in Hashers :
            \A r \in {validate_cargo_archive(vpa.files, hasher)} :
              /\ r.ok
              /\ \A order \in Orderings(r.resolved) : AuditAccepts(order)
       /\ journal = <<GuestOutput>>
  /\ phase = "panicked" =>
       /\ \/ ~PassesGates
          \/ \A hasher \in Hashers :
               \A r \in {validate_cargo_archive(vpa.files, hasher)} :
                 \/ ~r.ok
                 \/ \A order \in Orderings(r.resolved) : ~AuditAccepts(order)
       /\ journal = <<>>

\* A rejected run whose error would have been another one under another order.
C12_Witness ==
  /\ phase = "panicked"
  /\ Len(resolved_deps) = 2
  /\ guest_err.err = "DisallowedLicense"
  /\ \E order \in Orderings({resolved_deps[1], resolved_deps[2]}) :
       audit_dependencies(order, guest_in.permitted_deps.allowlist,
                          guest_in.has_policy, guest_in.license_policy).err
         = "DisallowedDependency"
\* ----------------------------------------------------------------- C13
\* The errors real_main returns before it reaches the version gate.
EarlyErrors == {"InconsistentPackageManager", "InvalidMerkleArchive"}

\* C13: the Cargo analysis runs only for a claimed Cargo version of at least
\* 1.51.0; when the managers agree and the Merkle archive validates but the
\* version is lower, the run fails with UnsupportedPackageManager, having run
\* neither the analysis nor the audit and committed nothing; a version of at
\* least 1.51.0 is never refused by the gate.
C13_AnalyzerNeedsCargo_1_51 ==
  /\ phase \in {"gate_ok", "resolved", "audit_ok", "done"} =>
       ~version_lt(guest_in.resolved_with.version, MinCargo)
  /\ (phase = "panicked" /\ guest_err.err \notin EarlyErrors \cup {"UnsupportedPackageManager"}) =>
       ~version_lt(guest_in.resolved_with.version, MinCargo)
  /\ (/\ guest_in.resolved_with.manager = guest_in.permitted_deps.resolvable_with
      /\ vpa.ok
      /\ phase # "merkle_ok"
      /\ version_lt(guest_in.resolved_with.version, MinCargo)) =>
       /\ phase = "panicked"
       /\ guest_err.err = "UnsupportedPackageManager"
       /\ resolved_deps = <<>>
       /\ audit_in = NoAudit
       /\ audit_out = None
       /\ journal = <<>>
  /\ (phase = "panicked" /\ guest_err.err = "UnsupportedPackageManager") =>
       version_lt(guest_in.resolved_with.version, MinCargo)

C13_Witness ==
  /\ phase = "panicked"
  /\ guest_err.err = "UnsupportedPackageManager"
  /\ guest_in.resolved_with.version = <<1, 50, 9>>
  /\ vpa.ok
  /\ Len(vpa.files) = 2
  /\ validate_cargo_archive(vpa.files, "forward").ok
\* ==================================== validate_cargo_archive on its own
MaxCargoFiles == 3

\* Dependency files: a path and the document its bytes are.
CargoCatalog ==
  { [name |-> <<"Cargo.toml">>, kind |-> k] :
      k \in {"ws_root", "ws_bare", "ws_empty", "ws_excl", "pkg", "binary"} }
    \cup { [name |-> <<"a", "/", "Cargo.toml">>, kind |-> k] : k \in {"pkg", "pkg_two", "ws_bare"} }
    \cup { [name |-> <<"b", "/", "Cargo.toml">>, kind |-> k] : k \in {"pkg"} }
    \cup { [name |-> <<"Cargo.lock">>, kind |-> k] :
             k \in {"lock_ok", "lock_old", "lock_v2", "lock_stray", "lock_two",
                    "lock_cyclic", "lock_nopath", "lock_sourceless", "lock_dup",
                    "lock_dup_unused", "binary"} }
    \cup { [name |-> <<"a", "/", "Cargo.lock">>, kind |-> k] : k \in {"lock_ok"} }
    \cup { [name |-> <<"b", "/", "Cargo.lock">>, kind |-> k] : k \in {"lock_ok", "lock_stray"} }

\* The ValidatedFile of a catalog entry.
ValidatedFile(e) ==
  [header |-> [name |-> e.name, size |-> Docs[e.kind].size], bytes |-> DocBytes(e.kind)]

\* What validate_merkle_archive can return: files whose names are distinct.
CargoArchives ==
  { [k \in 1..Len(entries) |-> ValidatedFile(entries[k])] :
      entries \in { es \in UNION { [1..n -> CargoCatalog] : n \in 0..MaxCargoFiles } :
                      \A i, j \in 1..Len(es) : i # j => es[i].name # es[j].name } }

\* The analysis starts on a validated archive, past the version gate.
InitCargo ==
  /\ phase = "gate_ok"
  /\ tar = <<>>
  /\ tree = <<>>
  /\ archive = NoArchive
  /\ tampering = <<>>
  /\ \E files \in CargoArchives :
       vpa = [ok |-> TRUE, headers |-> [k \in 1..Len(files) |-> files[k].header],
              files |-> files]
  /\ audit_in = NoAudit
  /\ audit_out = None
  /\ GuestIdle
  /\ HostIdle

NextCargo == CargoAnalysis

SpecCargo == InitCargo /\ [][NextCargo]_vars

\* ----------------------------------------------------------------- C14
AnalysisDone == phase \in {"resolved", "panicked"}

ManifestFiles == SelectSeq(vpa.files, LAMBDA vf : EndsWith(vf.header.name, "Cargo.toml"))

LockFiles == SelectSeq(vpa.files, LAMBDA vf : EndsWith(vf.header.name, "Cargo.lock"))

AllManifestsParse ==
  \A k \in 1..Len(ManifestFiles) : parse_manifest_file(ManifestFiles[k]).ok

AllLocksParse ==
  \A k \in 1..Len(LockFiles) : parse_lock_file(LockFiles[k]).ok

ManifestInfos == {parse_manifest_file(ManifestFiles[k]).info : k \in 1..Len(ManifestFiles)}

\* Every manifest with a workspace table, and every other manifest that no
\* manifest with a workspace table owns.
WorkspaceRoots ==
  {m.path : m \in {m \in ManifestInfos : m.has_workspace}}
    \cup {m.path : m \in {m \in ManifestInfos :
                            /\ ~m.has_workspace
                            /\ \A root \in ManifestInfos :
                                 root.has_workspace => ~workspace_owns_manifest(root, m)}}

Failed(kind) == phase = "panicked" /\ guest_err.err = kind

LockPaths == {LockFiles[k].header.name : k \in 1..Len(LockFiles)}

\* The placement checks are reached: the files parse and there is one root.
PlacementReached ==
  /\ AnalysisDone
  /\ AllManifestsParse
  /\ Cardinality(WorkspaceRoots) = 1
  /\ AllLocksParse

TheRoot == CHOOSE path \in WorkspaceRoots : TRUE

\* Some manifest other than the root has a lockfile in its own directory.
NonRootHasLock ==
  \E m \in ManifestInfos : m.path # TheRoot /\ to_lock_path(m.path) \in LockPaths

\* C15: with exactly one workspace root R, explicit or implicit, the analysis
\* fails with RedundantLockfile when a non-root manifest has a lockfile in its
\* own directory and only then, fails with MissingLockfile when no lockfile is
\* beside R, and otherwise passes the placement checks: the lockfile beside R
\* is never a redundant one, also when R is an ordinary package without a
\* workspace table.
C15_RootLockfileIsAuthoritative ==
  PlacementReached =>
    /\ NonRootHasLock => Failed("RedundantLockfile")
    /\ ~NonRootHasLock => ~Failed("RedundantLockfile")
    /\ (~NonRootHasLock /\ to_lock_path(TheRoot) \notin LockPaths) =>
         Failed("MissingLockfile")
    /\ to_lock_path(TheRoot) \in LockPaths => ~Failed("MissingLockfile")
\* ----------------------------------------------------------------- C16
\* What a manifest declares: the entries of its three dependency tables whose
\* requirement is a semver requirement, under their canonical crate names.
Declared(doc) ==
  LET entries == doc.dependencies \o doc.build_dependencies \o doc.dev_dependencies
  IN { [name |-> IF entries[k].package = "" THEN entries[k].key ELSE entries[k].package,
        req |-> entries[k].req] :
         k \in {k \in 1..Len(entries) : entries[k].req.parses} }

\* The lockfile beside the workspace root, as the document it is.
RootLockDoc ==
  DocOf(LockFiles[CHOOSE k \in 1..Len(LockFiles) :
                    LockFiles[k].header.name = to_lock_path(TheRoot)].bytes)

Pins(lock_doc, dep) ==
  \E k \in 1..Len(lock_doc.packages) :
    /\ lock_doc.packages[k].name = dep.name
    /\ matches(dep.req, lock_doc.packages[k].version)

\* A requirement some manifest declares and the root lockfile does not satisfy.
SomeRequirementUnmet ==
  \E k \in 1..Len(ManifestFiles) :
    \E dep \in Declared(DocOf(ManifestFiles[k].bytes)) : ~Pins(RootLockDoc, dep)

PlacementPassed ==
  /\ PlacementReached
  /\ ~Failed("RedundantLockfile")
  /\ ~Failed("MissingLockfile")

\* C16: an accepted archive has every requirement of every manifest, from the
\* dependencies, build-dependencies and dev-dependencies tables alike,
\* satisfied by a version the root lockfile pins for that crate; once the
\* lockfiles are in place, a requirement that is not satisfied fails the
\* analysis with ManifestLockMismatch.
C16_DeclaredRequirementsAreSatisfied ==
  /\ phase = "resolved" => ~SomeRequirementUnmet
  /\ (PlacementPassed /\ SomeRequirementUnmet) => Failed("ManifestLockMismatch")
\* ----------------------------------------------------------------- C17
\* The packages of a lockfile, by position, that a set of them reaches through
\* declared children: a child is the package a dependency entry names by crate
\* name and version.
RECURSIVE Closure(_, _)
Closure(lock_doc, seen) ==
  LET children ==
        {j \in 1..Len(lock_doc.packages) :
           \E i \in seen : \E d \in 1..Len(lock_doc.packages[i].dependencies) :
             /\ lock_doc.packages[i].dependencies[d].name = lock_doc.packages[j].name
             /\ lock_doc.packages[i].dependencies[d].version = lock_doc.packages[j].version}
  IN IF children \subseteq seen THEN seen ELSE Closure(lock_doc, seen \cup children)

PathPackages(lock_doc) ==
  {k \in 1..Len(lock_doc.packages) : ~lock_doc.packages[k].has_source}

\* Some package a lockfile lists is not reachable from its path packages.
HasUnreachablePackage(lock_doc) ==
  Closure(lock_doc, PathPackages(lock_doc)) # 1..Len(lock_doc.packages)

\* The lockfiles are in place and every declared requirement is satisfied.
ReachabilityReached ==
  /\ PlacementPassed
  /\ ~Failed("ManifestLockMismatch")

\* C17: once the analysis reaches the reachability check, it fails with
\* UndeclaredLockfileDependency exactly when some lockfile of the archive,
\* authoritative or not, lists a package that forward traversal of declared
\* children from the lockfile's path packages does not reach; the walk ends on
\* cyclic graphs too, and a lockfile with packages and no path package fails.
C17_EveryListedPackageIsReachable ==
  ReachabilityReached =>
    (Failed("UndeclaredLockfileDependency") <=>
       \E k \in 1..Len(LockFiles) : HasUnreachablePackage(DocOf(LockFiles[k].bytes)))
\* ----------------------------------------------------------------- C18
\* The crate the explored manifests are the manifests of; the lockfiles list it
\* as their local package.
WorkspaceCrates == {"app"}

\* The crate names the manifests of the archive declare a dependency on.
DeclaredNames ==
  UNION { {dep.name : dep \in Declared(DocOf(ManifestFiles[k].bytes))} :
          k \in {k \in 1..Len(ManifestFiles) :
                   DocOf(ManifestFiles[k].bytes).form = "manifest"} }

\* The packages of a lockfile the manifests reference, directly or through
\* the declared children of packages they reference.
ReferencedByManifests(lock_doc) ==
  Closure(lock_doc,
          {k \in 1..Len(lock_doc.packages) :
             lock_doc.packages[k].name \in WorkspaceCrates \cup DeclaredNames})

HasInjectedPackage(lock_doc) ==
  ReferencedByManifests(lock_doc) # 1..Len(lock_doc.packages)

\* C18: an archive in which some lockfile lists a package that no manifest
\* references, directly or through declared children, is never accepted, and
\* fails with UndeclaredLockfileDependency once the reachability check is
\* reached, whether the injected package has a source or not.
C18_LockfilePoisoningIsBlocked ==
  (\E k \in 1..Len(LockFiles) :
     /\ DocOf(LockFiles[k].bytes).form = "lock"
     /\ HasInjectedPackage(DocOf(LockFiles[k].bytes))) =>
    /\ phase # "resolved"
    /\ ReachabilityReached => Failed("UndeclaredLockfileDependency")
\* ----------------------------------------------------------------- C19
\* The package entries with a source, by lockfile and position.
ExternalEntries ==
  UNION { { <<k, p>> : p \in {p \in 1..Len(DocOf(LockFiles[k].bytes).packages) :
                                 DocOf(LockFiles[k].bytes).packages[p].has_source} } :
          k \in 1..Len(LockFiles) }

EntryAsResolved(e) ==
  [name |-> DocOf(LockFiles[e[1]].bytes).packages[e[2]].name,
   version |-> DocOf(LockFiles[e[1]].bytes).packages[e[2]].version,
   provenance |-> LockFiles[e[1]].header.name]

\* C19: on success the resolved list has one ResolvedDependency for each
\* package entry with a source of each lockfile of the archive, with the
\* entry's name and version and the lockfile's path, and nothing else; two
\* entries of one crate name in two versions are both listed.
C19_ResolvedListsEveryExternalEntry ==
  phase = "resolved" =>
    /\ {resolved_deps[i] : i \in 1..Len(resolved_deps)}
         = {EntryAsResolved(e) : e \in ExternalEntries}
    /\ Len(resolved_deps) = Cardinality(ExternalEntries)
\* ================================================== ProverConfig::prove
\* A variable of the process environment: absent, or present with a value
\* that is text or is bytes that are no Unicode text.
Absent == [present |-> FALSE, unicode |-> TRUE, text |-> ""]

Text(t) == [present |-> TRUE, unicode |-> TRUE, text |-> t]

NotUnicodeBytes == [present |-> TRUE, unicode |-> FALSE, text |-> "\\xff"]

\* The three guards of prove, in the order it makes them: the key, the value
\* and the option that enables it.
Guards ==
  << [key |-> "RISC0_DEV_MODE", value |-> "1", option |-> "dev_mode"],
     [key |-> "RISC0_INFO", value |-> "1", option |-> "cycle_report"],
     [key |-> "RUST_LOG", value |-> "info", option |-> "cycle_report"] >>

EnvKeys == {Guards[g].key : g \in 1..Len(Guards)}

EnvValues == {Absent, Text("1"), Text("debug"), NotUnicodeBytes}

\* std::env::var: the text of a present variable, and an error for an absent
\* one as for one whose value is no Unicode text.
env_var(env, key) ==
  IF env[key].present /\ env[key].unicode THEN [ok |-> TRUE, v |-> env[key].text]
  ELSE IF env[key].present THEN [ok |-> FALSE, v |-> "NotUnicode"]
  ELSE [ok |-> FALSE, v |-> "NotPresent"]

set_var(env, key, value) == [env EXCEPT ![key] = Text(value)]

remove_var(env, key) == [env EXCEPT ![key] = Absent]

\* EnvVarGuard::new: the guard and the environment it leaves, or the conflict.
EnvVarGuard_new(env, key, value, enabled) ==
  LET existing == env_var(env, key) IN
  IF existing.ok /\ ~enabled
  THEN [ok |-> FALSE, err |-> "EnvVarConflict", why |-> <<key, existing.v>>, env |-> env]
  ELSE [ok |-> TRUE,
        guard |-> [key |-> key, prev |-> IF existing.ok THEN Some(existing.v) ELSE Nothing],
        env |-> IF enabled THEN set_var(env, key, value) ELSE env]

\* Drop for EnvVarGuard.
drop(env, guard) ==
  IF guard.prev.some THEN set_var(env, guard.key, guard.prev.v)
  ELSE remove_var(env, guard.key)

\* The guards of a scope are dropped in the reverse order of their creation.
RECURSIVE drop_all(_, _)
drop_all(env, guards) ==
  IF guards = <<>> THEN env
  ELSE drop_all(drop(env, guards[Len(guards)]), SubSeq(guards, 1, Len(guards) - 1))

ProverOpts == [dev_mode : BOOLEAN, cycle_report : BOOLEAN]

\* --------------------------------------------- the guest's diagnostic
\* A text is the sequence of its characters; the prefix the zkVM puts before
\* a guest's panic message counts as one.
PanicPrefix == "Guest panicked: "

DigitChars == <<"0", "1", "2", "3", "4", "5", "6", "7", "8", "9">>

IsDigit(ch) == \E d \in 1..Len(DigitChars) : DigitChars[d] = ch

DigitValue(ch) == TheOne({d \in 1..Len(DigitChars) : DigitChars[d] = ch}) - 1

\* u32::MAX, 4294967295, as its digits.
U32_MAX == <<"4", "2", "9", "4", "9", "6", "7", "2", "9", "5">>

\* The discriminants of ScaError.
ScaError ==
  [DisallowedDependency |-> 1, DisallowedVersion |-> 2, DisallowedLicense |-> 3,
   UnsupportedLockfileVersion |-> 4, InvalidMerkleArchive |-> 5,
   UndeclaredLockfileDependency |-> 6, MissingLockfile |-> 7,
   ManifestLockMismatch |-> 8, InvalidManifestEncoding |-> 9,
   ManifestParseError |-> 10, InvalidLockfileEncoding |-> 11,
   LockfileParseError |-> 12, RedundantLockfile |-> 13,
   InvalidWorkspaceCount |-> 14, UnsupportedPackageManager |-> 15,
   InconsistentPackageManager |-> 16]

\* Display of an unsigned integer: its decimal digits.
RECURSIVE Decimal(_)
Decimal(n) ==
  IF n < 10 THEN <<DigitChars[n + 1]>>
  ELSE Decimal(n \div 10) \o <<DigitChars[(n % 10) + 1]>>

\* main of the guest: panic!("{}|{}", code as u32, detail).
panic_message(code, detail) == Decimal(code) \o <<"|">> \o detail

\* str::strip_prefix.
strip_prefix(text, prefix) ==
  IF text # <<>> /\ text[1] = prefix THEN Some(Tail(text)) ELSE Nothing

\* str::split_once: the text before and the text after the first delimiter.
split_once(text, delimiter) ==
  LET at == {i \in 1..Len(text) : text[i] = delimiter} IN
  IF at = {} THEN Nothing
  ELSE LET first == CHOOSE i \in at : \A j \in at : i <= j
       IN Some(<<SubSeq(text, 1, first - 1), SubSeq(text, first + 1, Len(text))>>)

RECURSIVE digits_value(_, _)
digits_value(digits, acc) ==
  IF digits = <<>> THEN acc
  ELSE digits_value(Tail(digits), acc * 10 + DigitValue(digits[1]))

\* The digits without their leading zeros.
RECURSIVE significant(_)
significant(digits) ==
  IF digits # <<>> /\ digits[1] = "0" THEN significant(Tail(digits)) ELSE digits

\* The number the digits write is greater than u32::MAX.
overflows_u32(digits) ==
  LET s == significant(digits) IN
  \/ Len(s) > Len(U32_MAX)
  \/ /\ Len(s) = Len(U32_MAX)
     /\ \E i \in 1..Len(s) :
          /\ DigitValue(s[i]) > DigitValue(U32_MAX[i])
          /\ \A j \in 1..(i - 1) : s[j] = U32_MAX[j]

\* str::parse::<u32>: an optional plus sign, then one decimal digit or more,
\* of a value that fits 32 bits.
parse_u32(text) ==
  LET digits == IF text # <<>> /\ text[1] = "+" THEN Tail(text) ELSE text IN
  IF digits = <<>> \/ \E i \in 1..Len(digits) : ~IsDigit(digits[i]) THEN Nothing
  ELSE IF overflows_u32(digits) THEN Nothing
  ELSE Some(digits_value(digits, 0))

\* ProverError as the enum declares its variants that carry one text.
ProverErrorDeclared ==
  <<"DisallowedDependency", "DisallowedVersion", "DisallowedLicense",
    "UnsupportedLockfileVersion", "InvalidMerkleArchive", "MissingLockfile",
    "MissingManifest", "ManifestLockMismatch", "UndeclaredLockfileDependency",
    "InvalidManifestEncoding", "ManifestParseError", "InvalidLockfileEncoding",
    "LockfileParseError", "RedundantLockfile", "InvalidWorkspaceCount",
    "UnsupportedPackageManager", "InconsistentPackageManager">>

\* A classification that takes the n-th declared variant for code n.
prover_error_by_declaration(code, detail) ==
  IF code \in 1..Len(ProverErrorDeclared)
  THEN [err |-> ProverErrorDeclared[code], why |-> <<detail>>]
  ELSE [err |-> "UnknownGuestError", why |-> <<code, detail>>]

\* The match of prove on the code.
prover_error(code, detail) ==
  CASE code = 1 -> [err |-> "DisallowedDependency", why |-> <<detail>>]
    [] code = 2 -> [err |-> "DisallowedVersion", why |-> <<detail>>]
    [] code = 3 -> [err |-> "DisallowedLicense", why |-> <<detail>>]
    [] code = 4 -> [err |-> "UnsupportedLockfileVersion", why |-> <<detail>>]
    [] code = 5 -> [err |-> "InvalidMerkleArchive", why |-> <<detail>>]
    [] code = 6 -> [err |-> "UndeclaredLockfileDependency", why |-> <<detail>>]
    [] code = 7 -> [err |-> "MissingLockfile", why |-> <<detail>>]
    [] code = 8 -> [err |-> "ManifestLockMismatch", why |-> <<detail>>]
    [] code = 9 -> [err |-> "InvalidManifestEncoding", why |-> <<detail>>]
    [] code = 10 -> [err |-> "ManifestParseError", why |-> <<detail>>]
    [] code = 11 -> [err |-> "InvalidLockfileEncoding", why |-> <<detail>>]
    [] code = 12 -> [err |-> "LockfileParseError", why |-> <<detail>>]
    [] code = 13 -> [err |-> "RedundantLockfile", why |-> <<detail>>]
    [] code = 14 -> [err |-> "InvalidWorkspaceCount", why |-> <<detail>>]
    [] code = 15 -> [err |-> "UnsupportedPackageManager", why |-> <<detail>>]
    [] code = 16 -> [err |-> "InconsistentPackageManager", why |-> <<detail>>]
    [] OTHER -> [err |-> "UnknownGuestError", why |-> <<code, detail>>]

\* The Err arm of prove: the error of the zkVM's prover turned into a
\* ProverError.
classify(message) ==
  LET stripped == strip_prefix(message, PanicPrefix)
      panic_msg == IF stripped.some THEN stripped.v ELSE message
      split == split_once(panic_msg, "|")
      code == IF split.some THEN parse_u32(split.v[1]) ELSE Nothing
  IN IF split.some /\ code.some THEN prover_error(code.v, split.v[2])
     ELSE [err |-> "UnknownGuestError", why |-> <<0, panic_msg>>]

\* What follows the bar of a diagnostic.
Details == {<<>>, <<"d">>, <<"a", "|", "b">>}

\* Codes no ScaError has, as a guest would print them.
OtherCodes == {0, 17, 999999999}

\* Texts before the bar that no guest of this repository prints.
OtherCodeTexts ==
  {<<>>, <<"x">>, <<"+">>, <<"-", "1">>, <<" ", "5">>, <<"+", "5">>, <<"0", "5">>,
   SubSeq(U32_MAX, 1, Len(U32_MAX) - 1) \o <<"6">>,
   U32_MAX \o <<"0">>}

\* The errors the zkVM's prover can return: a guest's panic with or without
\* the prefix, and texts of failures that are no guest diagnostic.
ProverMessages ==
  LET diagnostics ==
        {panic_message(c, d) :
           c \in {ScaError[k] : k \in DOMAIN ScaError} \cup OtherCodes, d \in Details}
        \cup {t \o <<"|">> \o <<"d">> : t \in OtherCodeTexts}
        \cup {<<"o", "o", "m">>, <<>>}
  IN diagnostics \cup {<<PanicPrefix>> \o m : m \in diagnostics}

\* What build_merkle_archive returns: the archive or a BuildError. No
\* SourceBundle has a manager other than Cargo, so UnsupportedPackageManager
\* is never returned.
BuildOutcomes == {"Ok", "Io", "UnsupportedTarFormat"}

\* A call of prove finds the environment as the process has it.
InitProver ==
  /\ phase = "prover"
  /\ tar = <<>>
  /\ tree = <<>>
  /\ archive = NoArchive
  /\ tampering = <<>>
  /\ vpa = None
  /\ audit_in = NoAudit
  /\ audit_out = None
  /\ GuestIdle
  /\ received = <<>>
  /\ decoded = None
  /\ env_vars \in [EnvKeys -> EnvValues]
  /\ \E opts \in ProverOpts :
       prover = [pc |-> "called", opts |-> opts, locked |-> FALSE, guards |-> <<>>,
                 at_call |-> env_vars, result |-> "none", why |-> <<>>,
                 message |-> <<>>,
                 built |-> FALSE, ran_under |-> <<>>]
  /\ prove_lock = 0
  /\ calls = <<>>
  /\ loading = <<>>
  /\ builder = <<>>

prover_frame ==
  UNCHANGED <<merkle_vars, audit_vars, guest_vars, verifier_vars, prove_lock, calls,
              types_vars>>

\* PROVE_LOCK.lock().
LockProver ==
  /\ prover.pc = "called"
  /\ ~prover.locked
  /\ prover' = [prover EXCEPT !.locked = TRUE, !.pc = "guards"]
  /\ UNCHANGED env_vars
  /\ prover_frame

\* The next EnvVarGuard::new(..)?.
NewGuard ==
  /\ prover.pc = "guards"
  /\ Len(prover.guards) < Len(Guards)
  /\ LET g == Guards[Len(prover.guards) + 1]
         made == EnvVarGuard_new(env_vars, g.key, g.value, prover.opts[g.option])
     IN IF made.ok
        THEN /\ env_vars' = made.env
             /\ prover' = [prover EXCEPT !.guards = Append(@, made.guard)]
        ELSE /\ UNCHANGED env_vars
             /\ prover' = [prover EXCEPT !.pc = "exiting", !.result = made.err,
                                          !.why = made.why]
  /\ prover_frame

\* build_merkle_archive(&self.bundle), which the source archive may fail.
BuildArchive ==
  /\ prover.pc = "guards"
  /\ Len(prover.guards) = Len(Guards)
  /\ \E built \in BuildOutcomes :
       prover' = IF built = "Ok" THEN [prover EXCEPT !.pc = "proving", !.built = TRUE]
                 ELSE [prover EXCEPT !.pc = "exiting", !.built = TRUE,
                                     !.result = "ArchiveParseError",
                                     !.why = <<built>>]
  /\ UNCHANGED env_vars
  /\ prover_frame

\* default_prover().prove(exec_env, SCA_ELF): a receipt, or the guest's panic.
RunProver ==
  /\ prover.pc = "proving"
  /\ \/ prover' = [prover EXCEPT !.pc = "exiting", !.result = "Receipt",
                                  !.ran_under = <<env_vars>>]
     \/ \E message \in ProverMessages :
          \E e \in {classify(message)} :
            prover' = [prover EXCEPT !.pc = "exiting", !.result = e.err,
                                     !.why = e.why, !.message = <<message>>,
                                     !.ran_under = <<env_vars>>]
  /\ UNCHANGED env_vars
  /\ prover_frame

\* Leaving prove: the guards made so far are dropped, then the lock's guard.
ExitProve ==
  /\ prover.pc = "exiting"
  /\ env_vars' = drop_all(env_vars, prover.guards)
  /\ prover' = [prover EXCEPT !.pc = "returned", !.guards = <<>>, !.locked = FALSE]
  /\ prover_frame

NextProver ==
  \/ LockProver
  \/ NewGuard
  \/ BuildArchive
  \/ RunProver
  \/ ExitProve

SpecProver == InitProver /\ [][NextProver]_vars

\* ----------------------------------------------------------------- C20
\* C20: when prove has returned, by a receipt, a guest error, an
\* ArchiveParseError or the EnvVarConflict of any of the three guards, each
\* of RISC0_DEV_MODE, RISC0_INFO and RUST_LOG has the value it had when prove
\* was called, and a variable that was absent is absent.
C20_EnvironmentIsRestored ==
  prover.pc = "returned" => env_vars = prover.at_call

\* ----------------------------------------------------------------- C21
\* The guards whose variable was set when prove was called while the option
\* that would enable them is false.
Conflicting ==
  {g \in 1..Len(Guards) :
     prover.at_call[Guards[g].key].present /\ ~prover.opts[Guards[g].option]}

\* C21: when one of the three variables is set at the call while its option
\* is false, prove returns EnvVarConflict with the name and the existing
\* value of such a variable, without having built the Merkle archive or run
\* the guest; without such a variable there is no conflict, a variable
\* whose option is true holds the guard's value while the zkVM runs, and it
\* has its earlier value again when prove has returned.
C21_ConflictIsReportedBeforeTheProof ==
  /\ (prover.pc = "returned" /\ Conflicting # {}) =>
       /\ prover.result = "EnvVarConflict"
       /\ \E g \in Conflicting :
            prover.why = <<Guards[g].key, prover.at_call[Guards[g].key].text>>
       /\ ~prover.built
       /\ prover.ran_under = <<>>
  /\ (prover.pc = "returned" /\ Conflicting = {}) =>
       prover.result # "EnvVarConflict"
  /\ \A g \in 1..Len(Guards) :
       prover.opts[Guards[g].option] =>
         /\ prover.pc = "proving" => env_vars[Guards[g].key] = Text(Guards[g].value)
         /\ prover.pc = "returned" =>
              env_vars[Guards[g].key] = prover.at_call[Guards[g].key]

\* ================================= calls of prove from several threads
MaxThreads == 2

Threads == 1..MaxThreads

\* What a caller can have put into the environment before the calls.
StartValues == {Absent, Text("debug")}

\* The position and the locals of one call; `guards` are the EnvVarGuards it
\* holds, in the order it made them.
NewCall(opts, env) ==
  [pc |-> "called", opts |-> opts, guards |-> <<>>, result |-> "none",
   at_call |-> env, at_lock |-> <<>>, ran_under |-> <<>>, at_unlock |-> <<>>]

InitProvers ==
  /\ phase = "provers"
  /\ tar = <<>>
  /\ tree = <<>>
  /\ archive = NoArchive
  /\ tampering = <<>>
  /\ vpa = None
  /\ audit_in = NoAudit
  /\ audit_out = None
  /\ GuestIdle
  /\ received = <<>>
  /\ decoded = None
  /\ prover = <<>>
  /\ env_vars \in [EnvKeys -> StartValues]
  /\ prove_lock = 0
  /\ calls \in [Threads -> {NewCall(opts, env_vars) : opts \in ProverOpts}]
  /\ loading = <<>>
  /\ builder = <<>>

calls_frame ==
  UNCHANGED <<merkle_vars, audit_vars, guest_vars, verifier_vars, prover, types_vars>>

\* A lock() that does not wait for the mutex to be free.
LockWithoutMutex(t) ==
  /\ calls[t].pc = "called"
  /\ prove_lock' = t
  /\ calls' = [calls EXCEPT ![t].pc = "guards", ![t].at_lock = <<env_vars>>]
  /\ UNCHANGED env_vars
  /\ calls_frame

\* PROVE_LOCK.lock(): the thread waits until no thread holds the mutex.
Lock(t) ==
  /\ calls[t].pc = "called"
  /\ prove_lock = 0
  /\ prove_lock' = t
  /\ calls' = [calls EXCEPT ![t].pc = "guards", ![t].at_lock = <<env_vars>>]
  /\ UNCHANGED env_vars
  /\ calls_frame

\* The thread's next EnvVarGuard::new(..)?.
MakeGuard(t) ==
  /\ calls[t].pc = "guards"
  /\ Len(calls[t].guards) < Len(Guards)
  /\ LET g == Guards[Len(calls[t].guards) + 1]
         made == EnvVarGuard_new(env_vars, g.key, g.value, calls[t].opts[g.option])
     IN IF made.ok
        THEN /\ env_vars' = made.env
             /\ calls' = [calls EXCEPT ![t].guards = Append(@, made.guard)]
        ELSE /\ UNCHANGED env_vars
             /\ calls' = [calls EXCEPT ![t].pc = "dropping", ![t].result = made.err]
  /\ UNCHANGED prove_lock
  /\ calls_frame

\* The thread's build_merkle_archive(&self.bundle).
BuildInThread(t) ==
  /\ calls[t].pc = "guards"
  /\ Len(calls[t].guards) = Len(Guards)
  /\ \E parsed \in BOOLEAN :
       calls' = IF parsed THEN [calls EXCEPT ![t].pc = "proving"]
                ELSE [calls EXCEPT ![t].pc = "dropping",
                                   ![t].result = "ArchiveParseError"]
  /\ UNCHANGED <<env_vars, prove_lock>>
  /\ calls_frame

\* The thread's default_prover().prove(exec_env, SCA_ELF).
ProveInThread(t) ==
  /\ calls[t].pc = "proving"
  /\ \E outcome \in {"Receipt", "GuestError"} :
       calls' = [calls EXCEPT ![t].pc = "dropping", ![t].result = outcome,
                              ![t].ran_under = <<env_vars>>]
  /\ UNCHANGED <<env_vars, prove_lock>>
  /\ calls_frame

\* Leaving prove, a local at a time: the guard made last is dropped first.
DropGuard(t) ==
  /\ calls[t].pc = "dropping"
  /\ calls[t].guards # <<>>
  /\ env_vars' = drop(env_vars, calls[t].guards[Len(calls[t].guards)])
  /\ calls' = [calls EXCEPT ![t].guards = SubSeq(@, 1, Len(@) - 1)]
  /\ UNCHANGED prove_lock
  /\ calls_frame

\* The MutexGuard `_guard`, declared first, is dropped last.
Unlock(t) ==
  /\ calls[t].pc = "dropping"
  /\ calls[t].guards = <<>>
  /\ prove_lock' = 0
  /\ calls' = [calls EXCEPT ![t].pc = "returned", ![t].at_unlock = <<env_vars>>]
  /\ UNCHANGED env_vars
  /\ calls_frame

NextProvers ==
  \E t \in Threads :
    \/ Lock(t)
    \/ MakeGuard(t)
    \/ BuildInThread(t)
    \/ ProveInThread(t)
    \/ DropGuard(t)
    \/ Unlock(t)

SpecProvers == InitProvers /\ [][NextProvers]_vars

\* ----------------------------------------------------------------- C22
Unset == [k \in EnvKeys |-> Absent]

\* The environment a call with these options makes from an unset one.
OwnEnvironment(opts) ==
  [k \in EnvKeys |->
     LET g == TheOne({i \in 1..Len(Guards) : Guards[i].key = k})
     IN IF opts[Guards[g].option] THEN Text(Guards[g].value) ELSE Absent]

\* The variables were unset when the threads made their calls.
StartedUnset == \A t \in Threads : calls[t].at_call = Unset

\* C22: at any moment at most one call holds an env-var guard, and only the
\* holder of the lock does; and when the variables are unset before the
\* calls, every call leaves the environment as it found it before it
\* releases the lock, none returns EnvVarConflict, and each runs the zkVM
\* under the variables its own options set and no other.
C22_ProveCallsAreSerialized ==
  /\ Cardinality({t \in Threads : calls[t].guards # <<>>}) <= 1
  /\ \A t \in Threads : calls[t].guards # <<>> => prove_lock = t
  /\ StartedUnset =>
       \A t \in Threads :
         /\ calls[t].at_lock # <<>> => calls[t].at_lock = <<Unset>>
         /\ calls[t].at_unlock # <<>> => calls[t].at_unlock = calls[t].at_lock
         /\ calls[t].result # "EnvVarConflict"
         /\ calls[t].ran_under # <<>> =>
              calls[t].ran_under[1] = OwnEnvironment(calls[t].opts)

\* Both calls have returned from an unset environment, one of them with
\* dev_mode on and one with dev_mode off, each having run the zkVM.
C22_Witness ==
  /\ \A t \in Threads : calls[t].pc = "returned" /\ calls[t].ran_under # <<>>
  /\ StartedUnset
  /\ \E t, u \in Threads : calls[t].opts.dev_mode /\ ~calls[u].opts.dev_mode

\* ----------------------------------------------------------------- C23
\* The message is the diagnostic of a guest that aborts with this code and
\* this detail, with or without the zkVM's prefix, the code being written
\* with or without a plus sign or a leading zero, which parse::<u32> reads
\* as the same number.
IsDiagnostic(message, code, detail) ==
  \E pre \in {<<>>, <<PanicPrefix>>}, lead \in {<<>>, <<"+">>, <<"0">>} :
    message = pre \o lead \o panic_message(code, detail)

\* C23: a guest abort with the diagnostic "<c>|<detail>" of a ScaError of
\* code c makes prove return the ProverError of that ScaError's name with
\* <detail>, all that follows the first bar; a diagnostic of another code
\* gives UnknownGuestError with that code, every other message
\* UnknownGuestError with code 0 and the whole message; and
\* ArchiveParseError is returned only for a failure of build_merkle_archive,
\* when the guest has not run.
C23_HostClassifiesFaithfully ==
  /\ \A k \in DOMAIN ScaError, d \in Details :
       (prover.message # <<>> /\ IsDiagnostic(prover.message[1], ScaError[k], d)) =>
         /\ prover.result = k
         /\ prover.why = <<d>>
  /\ \A c \in OtherCodes, d \in Details :
       (prover.message # <<>> /\ IsDiagnostic(prover.message[1], c, d)) =>
         /\ prover.result = "UnknownGuestError"
         /\ prover.why = <<c, d>>
  /\ (/\ prover.message # <<>>
      /\ ~\E c \in {ScaError[k] : k \in DOMAIN ScaError} \cup OtherCodes, d \in Details :
            IsDiagnostic(prover.message[1], c, d)) =>
       /\ prover.result = "UnknownGuestError"
       /\ prover.why[1] = 0
  /\ prover.result = "ArchiveParseError" =>
       /\ prover.message = <<>>
       /\ prover.ran_under = <<>>
       /\ prover.why[1] \in BuildOutcomes \ {"Ok"}

\* prove has returned InconsistentPackageManager, code 16, for a prefixed
\* diagnostic whose detail holds a bar itself.
C23_Witness ==
  /\ prover.pc = "returned"
  /\ prover.result = "InconsistentPackageManager"
  /\ prover.why = << <<"a", "|", "b">> >>
  /\ prover.message[1][1] = PanicPrefix

\* ============================================ the policy inputs (types)
MaxItems == 3

\* The texts that serve as sort keys, in the order of String's Ord.
KeyOrder == <<"Apache-2.0", "GPL-3.0", "MIT", "rand", "regex">>

key_rank(key) == TheOne({i \in 1..Len(KeyOrder) : KeyOrder[i] = key})

\* slice::sort_by_key, a stable sort: items of equal keys keep their order.
RECURSIVE sort_by_key(_, _)
sort_by_key(items, sort_key) ==
  IF items = <<>> THEN <<>>
  ELSE LET n == Len(items)
           sorted == sort_by_key(SubSeq(items, 1, n - 1), sort_key)
           before == Cardinality({i \in 1..(n - 1) :
                       key_rank(sort_key[sorted[i]]) <= key_rank(sort_key[items[n]])})
       IN SubSeq(sorted, 1, before) \o <<items[n]>> \o SubSeq(sorted, before + 1, n - 1)

\* A validation that compares neighbours without sorting first.
validate_nonempty_unique_unsorted(items, sort_key, dup_msg) ==
  IF items = <<>> THEN [ok |-> FALSE, err |-> "Validation", why |-> "must have at least one item"]
  ELSE LET dup == {i \in 2..Len(items) : sort_key[items[i - 1]] = sort_key[items[i]]}
       IN IF dup # {}
          THEN [ok |-> FALSE, err |-> "Validation",
                why |-> dup_msg[items[CHOOSE i \in dup : \A j \in dup : i <= j]]]
          ELSE [ok |-> TRUE, v |-> items]

\* validate_nonempty_unique; sort_key and dup_msg are the two closures, as
\* functions of the item.
validate_nonempty_unique(items, sort_key, dup_msg) ==
  IF items = <<>> THEN [ok |-> FALSE, err |-> "Validation", why |-> "must have at least one item"]
  ELSE LET sorted == sort_by_key(items, sort_key)
           dup == {i \in 2..Len(sorted) : sort_key[sorted[i - 1]] = sort_key[sorted[i]]}
       IN IF dup # {}
          THEN [ok |-> FALSE, err |-> "Validation",
                why |-> dup_msg[sorted[CHOOSE i \in dup : \A j \in dup : i <= j]]]
          ELSE [ok |-> TRUE, v |-> sorted]

Items(list) == {list[i] : i \in 1..Len(list)}

\* PermittedDependencies::try_new.
PermittedDependencies_try_new(resolvable_with, dependencies) ==
  LET non_empty == validate_nonempty_unique(dependencies,
                     [dep \in Items(dependencies) |-> dep.name],
                     [dup \in Items(dependencies) |-> <<"duplicate dependency", dup.name>>])
  IN IF non_empty.ok
     THEN [ok |-> TRUE,
           v |-> [resolvable_with |-> resolvable_with, dependencies |-> non_empty.v]]
     ELSE non_empty

\* Deserialize for PermittedDependencies: the fields as they are written,
\* then try_new.
PermittedDependencies_deserialize(raw) ==
  PermittedDependencies_try_new(raw.resolvable_with, raw.dependencies)

\* The Dependency values explored: one name in two versions, one in two
\* licenses.
DependencyCatalog ==
  { [name |-> "regex", license |-> Req("MIT"), min_safe_version |-> v] :
      v \in {<<1, 0, 0>>, <<1, 10, 0>>} }
  \cup { [name |-> "rand", license |-> l, min_safe_version |-> <<0, 8, 0>>] :
           l \in {Req("MIT"), Req("Apache-2.0")} }

DependencyLists == UNION { [1..n -> DependencyCatalog] : n \in 0..MaxItems }

\* spdx::Expression::parse of the texts explored: the expression, or nothing
\* for a text that is no SPDX expression.
spdx_parse(text) ==
  CASE text = "MIT" -> Some(Req("MIT"))
    [] text = "(MIT)" -> Some(Req("MIT"))
    [] text = "Apache-2.0" -> Some(Req("Apache-2.0"))
    [] text = "MIT OR Apache-2.0" -> Some(Or(Req("MIT"), Req("Apache-2.0")))
    [] text = "MIT AND MIT" -> Some(And(Req("MIT"), Req("MIT")))
    [] OTHER -> Nothing

SpdxTexts ==
  {"MIT", "(MIT)", "Apache-2.0", "MIT OR Apache-2.0", "MIT AND MIT", "not-a-license"}

\* Expression::requirements(): the license requirements of the expression,
\* left to right.
RECURSIVE requirements(_)
requirements(expr) ==
  IF expr.op = "req" THEN <<expr.r>>
  ELSE requirements(expr.a) \o requirements(expr.b)

\* LicensePolicy::try_new; a requirement's to_string() is its sort key.
LicensePolicy_try_new(allowed) ==
  LET allow == validate_nonempty_unique(allowed,
                 [req \in Items(allowed) |-> req],
                 [dup \in Items(allowed) |-> <<"Duplicate license requirement", dup>>])
  IN IF allow.ok THEN [ok |-> TRUE, v |-> [allowed |-> allow.v]] ELSE allow

\* The loop of Deserialize for LicensePolicy from the k-th text on: the
\* requirements pushed, or the error of the first text that is refused.
RECURSIVE reduce_from(_, _, _)
reduce_from(raw, k, out) ==
  IF k > Len(raw) THEN [ok |-> TRUE, v |-> out]
  ELSE LET expr == spdx_parse(raw[k]) IN
       IF ~expr.some THEN [ok |-> FALSE, err |-> "ParseError", why |-> raw[k]]
       ELSE LET reqs == requirements(expr.v) IN
            IF reqs = <<>>
            THEN [ok |-> FALSE, err |-> "custom", why |-> "empty SPDX expression"]
            ELSE IF Len(reqs) > 1
            THEN [ok |-> FALSE, err |-> "custom", why |-> <<raw[k], "multiple license terms">>]
            ELSE reduce_from(raw, k + 1, Append(out, reqs[1]))

\* Deserialize for LicensePolicy.
LicensePolicy_deserialize(raw) ==
  LET out == reduce_from(raw, 1, <<>>) IN
  IF out.ok THEN LicensePolicy_try_new(out.v) ELSE out

\* A prove_cmd that hands every list of licenses to the deserializer.
license_policy_always_deserialized(allowed_licenses) ==
  LET policy == LicensePolicy_deserialize(allowed_licenses) IN
  IF policy.ok THEN [ok |-> TRUE, v |-> Some(policy.v)] ELSE policy

\* prove_cmd: the Option<LicensePolicy> made of --allowed-licenses. The list
\* is written as a JSON array of strings and read back as a LicensePolicy.
license_policy_of(allowed_licenses) ==
  IF allowed_licenses = <<>> THEN [ok |-> TRUE, v |-> Nothing]
  ELSE LET policy == LicensePolicy_deserialize(allowed_licenses) IN
       IF policy.ok THEN [ok |-> TRUE, v |-> Some(policy.v)] ELSE policy

LicenseLists == UNION { [1..n -> SpdxTexts] : n \in 0..MaxItems }

\* The inputs wait to be loaded.
InitTypes ==
  /\ phase = "types"
  /\ tar = <<>>
  /\ tree = <<>>
  /\ archive = NoArchive
  /\ tampering = <<>>
  /\ vpa = None
  /\ audit_in = NoAudit
  /\ audit_out = None
  /\ GuestIdle
  /\ received = <<>>
  /\ decoded = None
  /\ env_vars = <<>>
  /\ prover = <<>>
  /\ prove_lock = 0
  /\ calls = <<>>
  /\ builder = <<>>
  /\ \/ \E deps \in DependencyLists, via \in {"try_new", "deserialize"} :
          loading = [what |-> "PermittedDependencies", via |-> via,
                     from |-> [resolvable_with |-> "Cargo", dependencies |-> deps],
                     result |-> <<>>]
     \/ \E raw \in LicenseLists, via \in {"prove_cmd", "deserialize"} :
          loading = [what |-> "LicensePolicy", via |-> via, from |-> raw,
                     result |-> <<>>]

types_frame ==
  UNCHANGED <<merkle_vars, audit_vars, guest_vars, verifier_vars, prover_vars, builder>>

\* The caller makes the value with try_new.
TryNewPermitted ==
  /\ loading.what = "PermittedDependencies"
  /\ loading.via = "try_new"
  /\ loading.result = <<>>
  /\ loading' = [loading EXCEPT !.result =
       <<PermittedDependencies_try_new(loading.from.resolvable_with,
                                       loading.from.dependencies)>>]
  /\ types_frame

\* serde_json::from_str::<PermittedDependencies> (main.rs of the cli).
DeserializePermitted ==
  /\ loading.what = "PermittedDependencies"
  /\ loading.via = "deserialize"
  /\ loading.result = <<>>
  /\ loading' = [loading EXCEPT !.result = <<PermittedDependencies_deserialize(loading.from)>>]
  /\ types_frame

\* prove_cmd of the cli makes the policy of its --allowed-licenses.
LoadLicensePolicy ==
  /\ loading.what = "LicensePolicy"
  /\ loading.via = "prove_cmd"
  /\ loading.result = <<>>
  /\ loading' = [loading EXCEPT !.result = <<license_policy_of(loading.from)>>]
  /\ types_frame

\* A caller of the library reads a JSON array as a LicensePolicy.
DeserializeLicensePolicy ==
  /\ loading.what = "LicensePolicy"
  /\ loading.via = "deserialize"
  /\ loading.result = <<>>
  /\ loading' = [loading EXCEPT !.result = <<LicensePolicy_deserialize(loading.from)>>]
  /\ types_frame

NextTypes ==
  \/ TryNewPermitted
  \/ DeserializePermitted
  \/ LoadLicensePolicy
  \/ DeserializeLicensePolicy

SpecTypes == InitTypes /\ [][NextTypes]_vars

\* ----------------------------------------------------------------- C24
\* The lists that hold the entries of a list in another order.
Permuted(list) ==
  {[i \in 1..Len(list) |-> list[q[i]]] : q \in Permutations(1..Len(list))}

\* How often the item occurs in the list.
Occurrences(list, item) == Cardinality({i \in 1..Len(list) : list[i] = item})

\* C24: try_new, and deserialization, succeeds exactly when the list has an
\* entry and no two entries of one name; the stored entries are then the
\* entries of the input; and every permutation of the input gives the same
\* result, an equal value when it succeeds.
C24_PermittedDependenciesAreNonEmptyAndUnique ==
  (loading.what = "PermittedDependencies" /\ loading.result # <<>>) =>
    LET deps == loading.from.dependencies
        made == loading.result[1]
    IN /\ made.ok <=>
            /\ deps # <<>>
            /\ \A i, j \in 1..Len(deps) : i # j => deps[i].name # deps[j].name
       /\ made.ok =>
            /\ Len(made.v.dependencies) = Len(deps)
            /\ \A d \in Items(deps) \cup Items(made.v.dependencies) :
                 Occurrences(made.v.dependencies, d) = Occurrences(deps, d)
            /\ made.v.resolvable_with = loading.from.resolvable_with
       /\ \A other \in Permuted(deps) :
            LET again == PermittedDependencies_try_new(loading.from.resolvable_with, other)
            IN /\ again.ok = made.ok
               /\ made.ok => again.v = made.v

\* Two entries given in descending order of their names were accepted, and
\* are stored.
C24_Witness ==
  /\ loading.what = "PermittedDependencies"
  /\ loading.result # <<>>
  /\ loading.result[1].ok
  /\ Len(loading.from.dependencies) = 2
  /\ loading.from.dependencies[1].name = "regex"
  /\ loading.from.dependencies[2].name = "rand"

\* ----------------------------------------------------------------- C25
\* Every text of the list is one SPDX requirement, and no two texts are the
\* same requirement.
OneRequirementEach(raw) ==
  /\ \A k \in 1..Len(raw) :
       spdx_parse(raw[k]).some /\ Len(requirements(spdx_parse(raw[k]).v)) = 1
  /\ \A i, j \in 1..Len(raw) :
       i # j => requirements(spdx_parse(raw[i]).v) # requirements(spdx_parse(raw[j]).v)

\* C25: prove_cmd turns an empty list of allowed licenses into no policy,
\* without an error, and a non-empty list into a policy exactly when every
\* element is one SPDX requirement and none is repeated, the policy holding
\* those requirements; it is an error otherwise. The deserializer of
\* LicensePolicy by itself accepts the same non-empty lists and refuses the
\* empty array.
C25_EmptyLicenseListIsNoPolicy ==
  (loading.what = "LicensePolicy" /\ loading.result # <<>>) =>
    LET raw == loading.from
        loaded == loading.result[1]
    IN /\ (loading.via = "prove_cmd" /\ raw = <<>>) =>
            loaded.ok /\ ~loaded.v.some
       /\ (loading.via = "prove_cmd" /\ raw # <<>>) =>
            /\ loaded.ok <=> OneRequirementEach(raw)
            /\ loaded.ok =>
                 /\ loaded.v.some
                 /\ Items(loaded.v.v.allowed)
                      = {requirements(spdx_parse(raw[k]).v)[1] : k \in 1..Len(raw)}
       /\ (loading.via = "deserialize" /\ raw # <<>>) =>
            loaded.ok <=> OneRequirementEach(raw)
       /\ (loading.via = "deserialize" /\ raw = <<>>) =>
            ~loaded.ok /\ loaded.err = "Validation"

\* C25 as stated: a license policy loaded from an empty array, by prove_cmd
\* or by the deserializer of LicensePolicy, is no policy and no error, and
\* a non-empty array yields a policy only if every element is one SPDX
\* requirement and none is repeated.
C25_EmptyArrayIsNeverAnError ==
  (loading.what = "LicensePolicy" /\ loading.result # <<>>) =>
    /\ loading.from = <<>> => loading.result[1].ok
    /\ (loading.from # <<>> /\ loading.result[1].ok) => OneRequirementEach(loading.from)

\* prove_cmd was given no license and made no policy.
C25_Witness ==
  /\ loading.what = "LicensePolicy"
  /\ loading.via = "prove_cmd"
  /\ loading.from = <<>>
  /\ loading.result # <<>>
  /\ loading.result[1].ok
  /\ ~loading.result[1].v.some

\* ----------------------------------------------------------------- C26
ManagersAgree ==
  guest_in.resolved_with.manager = guest_in.permitted_deps.resolvable_with

BelowGate == version_lt(guest_in.resolved_with.version, MinCargo)

AuditErrors == {"DisallowedDependency", "DisallowedVersion", "DisallowedLicense"}

\* C26: the guest's error is that of the first check that fails, in the
\* order manager consistency, Merkle validation, version gate, Cargo
\* analysis, allowlist audit: a manager mismatch is reported before the
\* archive is looked at; an archive that does not validate gives
\* InvalidMerkleArchive whatever version is claimed; the version gate is
\* reported only for an archive that validates, the analysis' errors only
\* past the gate, and the audit's only for an archive the analysis resolved.
C26_FirstFailingCheckIsReported ==
  /\ phase = "panicked" =>
       /\ ~ManagersAgree =>
            guest_err.err = "InconsistentPackageManager" /\ vpa = None
       /\ (ManagersAgree /\ ~vpa.ok) =>
            /\ vpa # None
            /\ guest_err = vpa
            /\ guest_err.err = "InvalidMerkleArchive"
       /\ (ManagersAgree /\ vpa.ok /\ BelowGate) =>
            /\ guest_err.err = "UnsupportedPackageManager"
            /\ resolved_deps = <<>>
            /\ audit_in = NoAudit
       /\ (ManagersAgree /\ vpa.ok /\ ~BelowGate /\ audit_in = NoAudit) =>
            \E hasher \in Hashers :
              guest_err = validate_cargo_archive(vpa.files, hasher)
       /\ audit_in # NoAudit =>
            /\ ManagersAgree /\ vpa.ok /\ ~BelowGate
            /\ guest_err.err \in AuditErrors
  /\ phase \notin {"host", "panicked"} => ManagersAgree
  /\ phase \in {"merkle_ok", "gate_ok", "resolved", "audit_ok", "done"} => vpa.ok
  /\ phase \in {"gate_ok", "resolved", "audit_ok", "done"} => ~BelowGate

\* An archive that does not validate, claimed with a Cargo below 1.51.0,
\* was refused as InvalidMerkleArchive.
C26_Witness ==
  /\ phase = "panicked"
  /\ ManagersAgree
  /\ vpa # None
  /\ ~vpa.ok
  /\ BelowGate
  /\ guest_err.err = "InvalidMerkleArchive"

\* ----------------------------------------------------------------- C27
\* The path with is_left_child negated on the steps in `steps`.
FlipAt(path, steps) ==
  [i \in 1..Len(path) |->
     IF i \in steps THEN [path[i] EXCEPT !.is_left_child = ~@] ELSE path[i]]

\* The leaves of the tree, each with its path and with every path got from
\* it by flipping is_left_child on some steps.
ProofCandidates ==
  UNION { { [data |-> tree[p].data, path |-> FlipAt(tree[p].path, steps)] :
              steps \in SUBSET (1..Len(tree[p].path)) } :
          p \in 1..Len(tree) }

\* C27: for the tree the builder made, a leaf's data and a path that verify
\* against root_hash reconstruct an index below the number of leaves, the
\* leaf at that position has that data, and so no leaf verifies at two
\* indices.
C27_IndexPinsPhysicalPosition ==
  (phase = "host" /\ Untampered) =>
    \A c \in ProofCandidates :
      verify_merkle_proof(c.data, c.path, archive.root_hash) =>
        /\ reconstruct_leaf_index(c.path) < Len(tree)
        /\ tree[reconstruct_leaf_index(c.path) + 1].data = c.data

\* ----------------------------------------------------------------- C28
\* The text of the manifest has a [workspace] table without a `members` key.
NoMembersKey(vf) == vf.bytes = DocBytes("ws_bare")

\* Ownership as C28 states it, for the file of an explicit root and the file
\* of another manifest.
OwnsAsStated(root_vf, vf) ==
  LET root == parse_manifest_file(root_vf).info
      manifest == parse_manifest_file(vf).info
      root_dir == trim_end_matches(root.path, "Cargo.toml")
      under(list) ==
        \E k \in 1..Len(list) :
          StartsWith(manifest.path, root_dir \o trim_end_matches(list[k], "/"))
  IN /\ StartsWith(manifest.path, root_dir)
     /\ ~(root.workspace_excludes.some /\ under(root.workspace_excludes.v))
     /\ \/ NoMembersKey(root_vf)
        \/ under(root.workspace_members.v)

ExplicitRootFiles ==
  {k \in 1..Len(ManifestFiles) : parse_manifest_file(ManifestFiles[k]).info.has_workspace}

\* The workspaces of the archive when ownership is as C28 states it.
RootsAsStated ==
  {ManifestFiles[k].header.name : k \in ExplicitRootFiles}
    \cup {ManifestFiles[k].header.name :
            k \in {k \in 1..Len(ManifestFiles) \ ExplicitRootFiles :
                     \A r \in ExplicitRootFiles :
                       ~OwnsAsStated(ManifestFiles[r], ManifestFiles[k])}}

\* C28: an explicit root owns another manifest exactly when the root's
\* directory is a prefix of its path, no exclude prefix matches, and the
\* table has no members key or a listed member prefix matches; so an archive
\* whose workspaces, counted with that ownership, are exactly one is not
\* refused with InvalidWorkspaceCount, a bare [workspace] root with packages
\* under it included.
C28_OwnershipFollowsMembersAndExclude ==
  (AnalysisDone /\ AllManifestsParse) =>
    /\ \A r \in ExplicitRootFiles, k \in 1..Len(ManifestFiles) \ ExplicitRootFiles :
         workspace_owns_manifest(parse_manifest_file(ManifestFiles[r]).info,
                                 parse_manifest_file(ManifestFiles[k]).info)
           <=> OwnsAsStated(ManifestFiles[r], ManifestFiles[k])
    /\ Failed("InvalidWorkspaceCount") <=> Cardinality(RootsAsStated) # 1

\* ======================================== parse_tar_header on its own
MaxSizeBytes == 4

\* Bytes a size field can hold: NUL, space, the octal digits 0, 1 and 7, the
\* decimal digit 8, and '/' and 'a', one below and one above the digits.
FieldBytes == {NUL, SPACE, 48, 49, 55, 56, 47, 97}

IsOctalDigit(b) == b \in 48..55

\* Size fields: padding of zeros or spaces, then up to MaxSizeBytes bytes,
\* then the terminator.
SizeFields ==
  { [k \in 1..(SIZE_FIELD_LEN - 1 - Len(body)) |-> pad] \o body \o <<term>> :
      pad \in {ASCII_ZERO, SPACE}, term \in {NUL, SPACE},
      body \in UNION { [1..n -> FieldBytes] : n \in 0..MaxSizeBytes } }

InitTar ==
  /\ phase = "tar"
  /\ tar = <<>>
  /\ tree = <<>>
  /\ archive = NoArchive
  /\ tampering = <<>>
  /\ vpa = None
  /\ audit_in = NoAudit
  /\ audit_out = None
  /\ GuestIdle
  /\ received = <<>>
  /\ decoded = None
  /\ env_vars = <<>>
  /\ prover = <<>>
  /\ prove_lock = 0
  /\ calls = <<>>
  /\ builder = <<>>
  /\ \E field \in SizeFields :
       loading = [what |-> "TarHeader", via |-> "parse_tar_header",
                  from |-> [name |-> <<"Cargo.toml">>, size |-> field, rest |-> "ustar"],
                  result |-> <<>>]

\* The subtraction b - b'0' underflows for a byte below '0'.
Underflows(field) ==
  \E k \in 1..Len(field) : field[k] # NUL /\ field[k] # SPACE /\ field[k] < ASCII_ZERO

\* parse_tar_header(block). A build with overflow checks panics where the
\* u8 subtraction underflows; a build without them wraps.
ParseTarHeader ==
  /\ loading.what = "TarHeader"
  /\ loading.result = <<>>
  /\ \E overflow_checks \in BOOLEAN :
       loading' = [loading EXCEPT !.result =
         IF overflow_checks /\ Underflows(loading.from.size)
         THEN <<[panicked |-> TRUE]>>
         ELSE <<[panicked |-> FALSE, header |-> parse_tar_header(loading.from)]>>]
  /\ types_frame

NextTar == ParseTarHeader

SpecTar == InitTar /\ [][NextTar]_vars

\* ----------------------------------------------------------------- C29
\* The number the octal digits of the field write, NUL and space skipped.
RECURSIVE OctalValue(_)
OctalValue(field) ==
  IF field = <<>> THEN 0
  ELSE LET b == field[Len(field)]
           front == SubSeq(field, 1, Len(field) - 1)
       IN IF IsOctalDigit(b) THEN OctalValue(front) * 8 + (b - ASCII_ZERO)
          ELSE OctalValue(front)

HasInvalidByte(field) ==
  \E k \in 1..Len(field) : ~IsOctalDigit(field[k]) /\ field[k] # NUL /\ field[k] # SPACE

\* C29: parse_tar_header returns, and the size it returns is 0 when the
\* field has a byte that is no octal digit, NUL or space, and the value of
\* the octal digits otherwise; block_count of it is the least number of
\* 512-byte blocks that hold it.
C29_InvalidSizeFieldYieldsZero ==
  (loading.what = "TarHeader" /\ loading.result # <<>>) =>
    /\ ~loading.result[1].panicked
    /\ LET size == loading.result[1].header.size IN
       /\ HasInvalidByte(loading.from.size) => size = 0
       /\ ~HasInvalidByte(loading.from.size) => size = OctalValue(loading.from.size)
       /\ block_count(size) * BLOCK >= size
       /\ size > 0 => (block_count(size) - 1) * BLOCK < size

\* ================================================== the Prover builder
MaxBuilderCalls == 4

Bundles == {"bundle_a", "bundle_b"}

BuilderDeps == {"deps_a"}

BuilderPolicies == {"policy_a"}

\* Prover::new()
Prover_new ==
  [src_bundle |-> Nothing, permitted_deps |-> Nothing, license_policy |-> Nothing,
   opts |-> [dev_mode |-> FALSE, cycle_report |-> FALSE]]

\* The setters copy the Prover and set one field of the copy.
with_bundle(self, bundle) == [self EXCEPT !.src_bundle = Some(bundle)]

with_permitted_deps(self, deps) == [self EXCEPT !.permitted_deps = Some(deps)]

with_license_policy(self, policy) == [self EXCEPT !.license_policy = Some(policy)]

with_dev_mode(self, enabled) == [self EXCEPT !.opts.dev_mode = enabled]

with_cycle_report(self, enabled) == [self EXCEPT !.opts.cycle_report = enabled]

\* Option::take(): the value, and None left in its place.
take(option) == [taken |-> option, left |-> Nothing]

\* Prover::build(&mut self): the Prover it leaves and what it returns. Each
\* required field is taken out of the Prover before the `?` that may return.
build(self) ==
  LET bundle == take(self.src_bundle)
      after_bundle == [self EXCEPT !.src_bundle = bundle.left]
  IN IF ~bundle.taken.some
     THEN [self |-> after_bundle, ok |-> FALSE, err |-> "MissingSourceArchive",
           config |-> <<>>]
     ELSE LET permitted_deps == take(after_bundle.permitted_deps)
              after_deps == [after_bundle EXCEPT !.permitted_deps = permitted_deps.left]
          IN IF ~permitted_deps.taken.some
             THEN [self |-> after_deps, ok |-> FALSE,
                   err |-> "MissingPermittedDependencies", config |-> <<>>]
             ELSE [self |-> after_deps, ok |-> TRUE, err |-> "none",
                   config |-> <<[bundle |-> bundle.taken.v,
                                 permitted_deps |-> permitted_deps.taken.v,
                                 license_policy |-> self.license_policy,
                                 opts |-> self.opts]>>]

\* A caller holds one Prover; `calls` counts what it did with it,
\* `bundle_ever` says whether with_bundle was ever called, and `builds` keeps,
\* for every build(), the Prover before, the Prover after and the result.
InitBuilder ==
  /\ phase = "builder"
  /\ tar = <<>>
  /\ tree = <<>>
  /\ archive = NoArchive
  /\ tampering = <<>>
  /\ vpa = None
  /\ audit_in = NoAudit
  /\ audit_out = None
  /\ GuestIdle
  /\ received = <<>>
  /\ decoded = None
  /\ env_vars = <<>>
  /\ prover = <<>>
  /\ prove_lock = 0
  /\ calls = <<>>
  /\ loading = <<>>
  /\ builder = [prover |-> Prover_new, calls |-> 0, bundle_ever |-> FALSE, builds |-> <<>>]

builder_frame ==
  UNCHANGED <<merkle_vars, audit_vars, guest_vars, verifier_vars, prover_vars, loading>>

CanCall == phase = "builder" /\ builder.calls < MaxBuilderCalls

WithBundle ==
  /\ CanCall
  /\ \E bundle \in Bundles :
       builder' = [builder EXCEPT !.prover = with_bundle(@, bundle),
                                  !.calls = @ + 1, !.bundle_ever = TRUE]
  /\ builder_frame

WithPermittedDeps ==
  /\ CanCall
  /\ \E deps \in BuilderDeps :
       builder' = [builder EXCEPT !.prover = with_permitted_deps(@, deps), !.calls = @ + 1]
  /\ builder_frame

WithLicensePolicy ==
  /\ CanCall
  /\ \E policy \in BuilderPolicies :
       builder' = [builder EXCEPT !.prover = with_license_policy(@, policy), !.calls = @ + 1]
  /\ builder_frame

WithDevMode ==
  /\ CanCall
  /\ \E enabled \in BOOLEAN :
       builder' = [builder EXCEPT !.prover = with_dev_mode(@, enabled), !.calls = @ + 1]
  /\ builder_frame

WithCycleReport ==
  /\ CanCall
  /\ \E enabled \in BOOLEAN :
       builder' = [builder EXCEPT !.prover = with_cycle_report(@, enabled), !.calls = @ + 1]
  /\ builder_frame

ProverBuild ==
  /\ CanCall
  /\ \E built \in {build(builder.prover)} :
       builder' = [builder EXCEPT
         !.prover = built.self,
         !.calls = @ + 1,
         !.builds = Append(@, [before |-> builder.prover, after |-> built.self,
                               ok |-> built.ok, err |-> built.err,
                               bundle_ever |-> builder.bundle_ever])]
  /\ builder_frame

NextBuilder ==
  \/ WithBundle
  \/ WithPermittedDeps
  \/ WithLicensePolicy
  \/ WithDevMode
  \/ WithCycleReport
  \/ ProverBuild

SpecBuilder == InitBuilder /\ [][NextBuilder]_vars

\* ----------------------------------------------------------------- C30
\* C30: a build() that fails leaves the Prover as it was, so the bundle of
\* a Prover refused for its missing permitted dependencies is still set, and
\* build() returns MissingSourceArchive only on a Prover that with_bundle
\* was never called on.
C30_FailedBuildLeavesProverUnchanged ==
  phase = "builder" =>
    \A k \in 1..Len(builder.builds) :
      LET b == builder.builds[k] IN
        /\ ~b.ok => b.after = b.before
        /\ (b.err = "MissingPermittedDependencies" /\ b.before.src_bundle.some)
             => b.after.src_bundle = b.before.src_bundle
        /\ b.err = "MissingSourceArchive" => ~b.bundle_ever
====
